---- MODULE Spec2Model ----
(***************************************************************************)
(* A model of the adaptive memory allocator: the free-list arena           *)
(* (MemoryAllocator), the pool layer and adaptive controller               *)
(* (AdaptiveMemoryAllocator), the profiler (MemoryProfiler) and the leak   *)
(* tracker (MemoryLeakDetector).                                           *)
(*                                                                         *)
(* Every operation of the code is a pure operator on a state record `st`   *)
(* whose fields are the fields of the C++ objects; an operator returns     *)
(* [st, err, address]: the state the call leaves behind (also when it      *)
(* throws: whatever was mutated before the throw stays mutated), the       *)
(* exception it raised ("none" when it returned) and its return value.     *)
(* The actions apply one public call to the current state.                 *)
(***************************************************************************)
EXTENDS Integers, Sequences, FiniteSets, TLC

\* ---------------------------------------------------------------- bounds
\* Size of the arena of the bare MemoryAllocator (SpecArena).
ArenaSize == 5
\* Size of the arena of the AdaptiveMemoryAllocator (Spec).
TotalSize == 24
\* Largest request size the client of the adaptive allocator makes.
MaxSize == 2
\* Number of allocate calls that return an address to the client.
MaxOps == 3
\* Number of Adapt steps the client's calls run.
MaxAdapts == 1
\* Number of deallocate calls the client makes of addresses it does not hold.
MaxStrays == 1
\* Number of deallocate calls the client makes of addresses it holds.
MaxFrees == 3
\* Number of lowest held addresses the client picks from when it deallocates.
MaxChoices == 3
\* Number of allocate calls that return an address, and of deallocate calls
\* of held addresses, that the client of SpecExhausted makes.
ExhaustedOps == 2
ExhaustedFrees == 1
\* Number of enableAdaptiveMode(true) calls made on the fresh allocator
\* before the client of SpecTuned starts.
TuneCalls == 25
\* Successful allocate calls and deallocate calls of held addresses that the
\* client of SpecFrequent makes after its rounds.
FrequentOps == 2
FrequentFrees == 1
\* Number of enableAdaptiveMode(true) calls the client of SpecWorn has made
\* beyond TuneCalls before it starts.
WornCalls == 2
\* The calls the client of SpecProfiler makes, and the places left in the
\* history when it starts.
RecordCalls == 3
HistoryRoom == 1
\* Size of the arena of SpecPools.
PoolArena == 48

\* ------------------------------------------------------ program constants
\* SIZE_MAX stands for the largest size_t; every size of the model is far below it.
SIZE_MAX == 2147483647
InitFragNum == 3
InitFragDen == 10
InitPoolCreationThreshold == 100
InitAdaptationInterval == 1000
DefaultPoolBlockCount == 10
MinPredictedPoolCount == 5
ConfidenceScale == 20
HistoryCap == 10000
TopN == 5
REGION_SIZE == 4096
MAX_HOTSPOTS == 10

Strategies == {"FIRST_FIT", "BEST_FIT", "WORST_FIT"}

VARIABLES
    memoryBlocks,       \* MemoryAllocator::memoryBlocks: the ordered block list
    addressMap,         \* MemoryAllocator::addressMap: address -> list node (named by its address)
    totalMemorySize,    \* MemoryAllocator::totalMemorySize
    strategy,           \* MemoryAllocator::strategy
    adaptiveMode,       \* AdaptiveMemoryAllocator::adaptiveMode
    memoryPools,        \* AdaptiveMemoryAllocator::memoryPools
    params,             \* AdaptiveMemoryAllocator::params
    allocationHistory,  \* MemoryProfiler::allocationHistory
    sizeFrequency,      \* MemoryProfiler::sizeFrequency
    lifetimeDistribution, \* MemoryProfiler::lifetimeDistribution (size -> number of lifetimes)
    activeAllocations,  \* MemoryLeakDetector::activeAllocations (address -> size)
    leakHistory,        \* MemoryLeakDetector::allocationHistory
    held,               \* the client: <<address, size, served>> of every outstanding allocation
    strays,             \* the client's deallocate calls of addresses it did not hold
    ops,                \* the client's allocate calls that returned an address
    adapts,             \* the Adapt steps run so far
    frees,              \* the client's deallocate calls of addresses it held
    last                \* the last public call: its argument, outcome and result

vars == <<memoryBlocks, addressMap, totalMemorySize, strategy, adaptiveMode,
          memoryPools, params, allocationHistory, sizeFrequency,
          lifetimeDistribution, activeAllocations, leakHistory,
          held, strays, ops, adapts, frees, last>>

\* ---------------------------------------------------------------- helpers
Min(a, b) == IF a < b THEN a ELSE b
Max(a, b) == IF a > b THEN a ELSE b

RemoveAt(s, i) == SubSeq(s, 1, i - 1) \o SubSeq(s, i + 1, Len(s))
InsertAfter(s, i, x) == SubSeq(s, 1, i) \o <<x>> \o SubSeq(s, i + 1, Len(s))

\* The index in the list of the node the lookup names (0: no such node).
NodeIndex(blocks, node) ==
    IF \E i \in 1..Len(blocks) : blocks[i].address = node
    THEN CHOOSE i \in 1..Len(blocks) : blocks[i].address = node
    ELSE 0

\* ------------------------------------------------- MemoryAllocator (arena)
MemoryBlock(addr, sz, free) == [address |-> addr, size |-> sz, isFree |-> free]

\* The fields of the program's objects, as one record.
Cur ==
    [memoryBlocks |-> memoryBlocks, addressMap |-> addressMap,
     totalMemorySize |-> totalMemorySize, strategy |-> strategy,
     adaptiveMode |-> adaptiveMode, memoryPools |-> memoryPools,
     params |-> params, allocationHistory |-> allocationHistory,
     sizeFrequency |-> sizeFrequency,
     lifetimeDistribution |-> lifetimeDistribution,
     activeAllocations |-> activeAllocations, leakHistory |-> leakHistory]

\* MemoryAllocator::MemoryAllocator(size, allocationStrategy)
MemoryAllocatorCtor(size, allocationStrategy) ==
    [memoryBlocks |-> <<MemoryBlock(0, size, TRUE)>>,
     addressMap |-> [a \in {0} |-> 0],
     totalMemorySize |-> size,
     strategy |-> allocationStrategy]

FitsAt(blocks, i, size) == blocks[i].isFree /\ blocks[i].size >= size

\* Mutant of FirstFit: the last free block that fits instead of the first.
FirstFit_Last(blocks, size) ==
    IF \E i \in 1..Len(blocks) : FitsAt(blocks, i, size)
    THEN CHOOSE i \in 1..Len(blocks) :
            /\ FitsAt(blocks, i, size)
            /\ \A j \in (i + 1)..Len(blocks) : ~FitsAt(blocks, j, size)
    ELSE 0

\* FIRST_FIT: std::find_if, the first free block with size >= size (0: end()).
FirstFit(blocks, size) ==
    IF \E i \in 1..Len(blocks) : FitsAt(blocks, i, size)
    THEN CHOOSE i \in 1..Len(blocks) :
            /\ FitsAt(blocks, i, size)
            /\ \A j \in 1..(i - 1) : ~FitsAt(blocks, j, size)
    ELSE 0

\* Mutant of BestFitScan: a block as good as the best so far replaces it.
RECURSIVE BestFitScan_LastTie(_, _, _, _, _)
BestFitScan_LastTie(blocks, size, i, bestFit, smallestDifference) ==
    IF i > Len(blocks) THEN bestFit
    ELSE IF FitsAt(blocks, i, size) /\ blocks[i].size - size <= smallestDifference
         THEN BestFitScan_LastTie(blocks, size, i + 1, i, blocks[i].size - size)
         ELSE BestFitScan_LastTie(blocks, size, i + 1, bestFit, smallestDifference)

\* BEST_FIT: the scan with smallestDifference, starting from SIZE_MAX.
RECURSIVE BestFitScan(_, _, _, _, _)
BestFitScan(blocks, size, i, bestFit, smallestDifference) ==
    IF i > Len(blocks) THEN bestFit
    ELSE IF FitsAt(blocks, i, size) /\ blocks[i].size - size < smallestDifference
         THEN BestFitScan(blocks, size, i + 1, i, blocks[i].size - size)
         ELSE BestFitScan(blocks, size, i + 1, bestFit, smallestDifference)

\* WORST_FIT: the scan with largestDifference, starting from 0.
RECURSIVE WorstFitScan(_, _, _, _, _)
WorstFitScan(blocks, size, i, worstFit, largestDifference) ==
    IF i > Len(blocks) THEN worstFit
    ELSE IF FitsAt(blocks, i, size) /\ blocks[i].size - size > largestDifference
         THEN WorstFitScan(blocks, size, i + 1, i, blocks[i].size - size)
         ELSE WorstFitScan(blocks, size, i + 1, worstFit, largestDifference)

\* MemoryAllocator::findSuitableBlock: the index of the chosen block, 0 for end().
findSuitableBlock(blocks, strat, size) ==
    CASE strat = "FIRST_FIT" -> FirstFit(blocks, size)
      [] strat = "BEST_FIT" -> BestFitScan(blocks, size, 1, 0, SIZE_MAX)
      [] strat = "WORST_FIT" -> WorstFitScan(blocks, size, 1, 0, 0)
      [] OTHER -> 0

\* Mutant of splitBlock: block->size = size is forgotten.
splitBlock_KeepsSize(st, block, size) ==
    LET b == st.memoryBlocks[block]
        remainingSize == b.size - size
        newBlock == MemoryBlock(b.address + size, remainingSize, TRUE)
    IN IF remainingSize > 0
       THEN [st EXCEPT
               !.memoryBlocks = InsertAfter(st.memoryBlocks, block, newBlock),
               !.addressMap =
                   [a \in DOMAIN st.addressMap \cup {newBlock.address} |->
                       IF a = newBlock.address THEN newBlock.address
                       ELSE st.addressMap[a]]]
       ELSE st

\* splitBlock without the lookup entry of the remainder.
splitBlock_NoLookup(st, block, size) ==
    LET b == st.memoryBlocks[block]
        remainingSize == b.size - size
        newBlock == MemoryBlock(b.address + size, remainingSize, TRUE)
    IN IF remainingSize > 0
       THEN [st EXCEPT
               !.memoryBlocks =
                   InsertAfter([st.memoryBlocks EXCEPT ![block].size = size],
                               block, newBlock)]
       ELSE st

\* MemoryAllocator::splitBlock
splitBlock(st, block, size) ==
    LET b == st.memoryBlocks[block]
        remainingSize == b.size - size
        newBlock == MemoryBlock(b.address + size, remainingSize, TRUE)
    IN IF remainingSize > 0
       THEN [st EXCEPT
               !.memoryBlocks =
                   InsertAfter([st.memoryBlocks EXCEPT ![block].size = size],
                               block, newBlock),
               !.addressMap =
                   [a \in DOMAIN st.addressMap \cup {newBlock.address} |->
                       IF a = newBlock.address THEN newBlock.address
                       ELSE st.addressMap[a]]]
       ELSE st

\* Mutant of mergeLoop: the iterator also advances after a merge.
RECURSIVE mergeLoop_Advances(_, _)
mergeLoop_Advances(st, i) ==
    LET blocks == st.memoryBlocks IN
    IF i >= Len(blocks) THEN st
    ELSE IF blocks[i].isFree /\ blocks[i + 1].isFree
         THEN mergeLoop_Advances(
                [st EXCEPT
                   !.memoryBlocks =
                       RemoveAt([blocks EXCEPT ![i].size = blocks[i].size + blocks[i + 1].size],
                                i + 1),
                   !.addressMap =
                       [a \in DOMAIN st.addressMap \ {blocks[i + 1].address} |->
                           st.addressMap[a]]],
                i + 1)
         ELSE mergeLoop_Advances(st, i + 1)

\* Mutant of mergeLoop: addressMap.erase(next->address) is forgotten.
RECURSIVE mergeLoop_KeepsLookup(_, _)
mergeLoop_KeepsLookup(st, i) ==
    LET blocks == st.memoryBlocks IN
    IF i >= Len(blocks) THEN st
    ELSE IF blocks[i].isFree /\ blocks[i + 1].isFree
         THEN mergeLoop_KeepsLookup(
                [st EXCEPT
                   !.memoryBlocks =
                       RemoveAt([blocks EXCEPT ![i].size = blocks[i].size + blocks[i + 1].size],
                                i + 1)],
                i)
         ELSE mergeLoop_KeepsLookup(st, i + 1)

\* MemoryAllocator::mergeFreeBlocks: the loop, `it` at index i.
RECURSIVE mergeLoop(_, _)
mergeLoop(st, i) ==
    LET blocks == st.memoryBlocks IN
    IF i >= Len(blocks) THEN st
    ELSE IF blocks[i].isFree /\ blocks[i + 1].isFree
         THEN mergeLoop(
                [st EXCEPT
                   !.memoryBlocks =
                       RemoveAt([blocks EXCEPT ![i].size = blocks[i].size + blocks[i + 1].size],
                                i + 1),
                   !.addressMap =
                       [a \in DOMAIN st.addressMap \ {blocks[i + 1].address} |->
                           st.addressMap[a]]],
                i)
         ELSE mergeLoop(st, i + 1)

\* Mutant of mergeFreeBlocks: the walk starts at the second block.
mergeFreeBlocks_FromSecond(st) == mergeLoop(st, 2)

mergeFreeBlocks(st) == mergeLoop(st, 1)

\* Mutant of ArenaAllocate: the chosen block is never split.
ArenaAllocate_NoSplit(st, size) ==
    LET blockIt == findSuitableBlock(st.memoryBlocks, st.strategy, size) IN
    IF size = 0 THEN [st |-> st, err |-> "ZeroSize", address |-> 0]
    ELSE IF blockIt = 0 THEN [st |-> st, err |-> "NoFit", address |-> 0]
    ELSE [st |-> [st EXCEPT !.memoryBlocks[blockIt].isFree = FALSE],
          err |-> "none", address |-> st.memoryBlocks[blockIt].address]

\* MemoryAllocator::allocate
ArenaAllocate(st, size) ==
    LET blockIt == findSuitableBlock(st.memoryBlocks, st.strategy, size) IN
    IF size = 0 THEN [st |-> st, err |-> "ZeroSize", address |-> 0]
    ELSE IF blockIt = 0 THEN [st |-> st, err |-> "NoFit", address |-> 0]
    ELSE LET allocatedAddress == st.memoryBlocks[blockIt].address
             s1 == IF st.memoryBlocks[blockIt].size > size
                   THEN splitBlock(st, blockIt, size) ELSE st
         IN [st |-> [s1 EXCEPT !.memoryBlocks[blockIt].isFree = FALSE],
             err |-> "none", address |-> allocatedAddress]

\* Mutant of ArenaDeallocate: the call of mergeFreeBlocks() is forgotten.
ArenaDeallocate_NoMerge(st, address) ==
    IF address \notin DOMAIN st.addressMap
    THEN [st |-> st, err |-> "InvalidAddress", address |-> 0]
    ELSE LET it == NodeIndex(st.memoryBlocks, st.addressMap[address])
         IN [st |-> [st EXCEPT !.memoryBlocks[it].isFree = TRUE],
             err |-> "none", address |-> 0]

\* MemoryAllocator::deallocate
ArenaDeallocate(st, address) ==
    IF address \notin DOMAIN st.addressMap
    THEN [st |-> st, err |-> "InvalidAddress", address |-> 0]
    ELSE LET it == NodeIndex(st.memoryBlocks, st.addressMap[address])
         IN [st |-> mergeFreeBlocks([st EXCEPT !.memoryBlocks[it].isFree = TRUE]),
             err |-> "none", address |-> 0]

\* Mutant of setAllocationStrategy: the arena is rebuilt as by the
\* constructor when the strategy is set.
setAllocationStrategy_Rebuilds(st, newStrategy) ==
    [st EXCEPT !.strategy = newStrategy,
               !.memoryBlocks = <<MemoryBlock(0, st.totalMemorySize, TRUE)>>,
               !.addressMap = [a \in {0} |-> 0]]

\* MemoryAllocator::setAllocationStrategy
setAllocationStrategy(st, newStrategy) == [st EXCEPT !.strategy = newStrategy]

\* MemoryAllocator::getLargestFreeBlock
RECURSIVE LargestFrom(_, _, _)
LargestFrom(blocks, i, largest) ==
    IF i > Len(blocks) THEN largest
    ELSE LargestFrom(blocks, i + 1,
            IF blocks[i].isFree /\ blocks[i].size > largest
            THEN blocks[i].size ELSE largest)

getLargestFreeBlock(st) == LargestFrom(st.memoryBlocks, 1, 0)

\* MemoryAllocator::getTotalFreeMemory
RECURSIVE TotalFreeFrom(_, _, _)
TotalFreeFrom(blocks, i, total) ==
    IF i > Len(blocks) THEN total
    ELSE TotalFreeFrom(blocks, i + 1,
            IF blocks[i].isFree THEN total + blocks[i].size ELSE total)

getTotalFreeMemory(st) == TotalFreeFrom(st.memoryBlocks, 1, 0)

\* MemoryAllocator::getFragmentationRatio, as the fraction num/den
\* (1 - largest/totalFree = (totalFree - largest)/totalFree; 0.0 when nothing is free).
getFragmentationRatio(st) ==
    LET totalFreeMemory == getTotalFreeMemory(st)
        largestFreeBlock == getLargestFreeBlock(st)
    IN IF totalFreeMemory = 0 THEN [num |-> 0, den |-> 1]
       ELSE [num |-> totalFreeMemory - largestFreeBlock, den |-> totalFreeMemory]

\* ------------------------------------------------------- MemoryProfiler
AllocationRecord(size, address) ==
    [size |-> size, address |-> address, isActive |-> TRUE,
     deallocated |-> FALSE,   \* deallocationTime differs from the default time_point
     poolId |-> 0]

MapGet(m, k) == IF k \in DOMAIN m THEN m[k] ELSE 0
MapInc(m, k) == [x \in DOMAIN m \cup {k} |-> IF x = k THEN MapGet(m, k) + 1 ELSE m[x]]

RECURSIVE SumMap(_, _)
SumMap(m, keys) ==
    IF keys = {} THEN 0
    ELSE LET k == CHOOSE x \in keys : TRUE IN m[k] + SumMap(m, keys \ {k})

\* MemoryProfiler::updateSizeFrequency
updateSizeFrequency(st, size) ==
    [st EXCEPT !.sizeFrequency = MapInc(st.sizeFrequency, size)]

\* recordAllocation evicting the newest record of a full history.
recordAllocation_PopBack(st, size, address) ==
    LET s1 == updateSizeFrequency(
                [st EXCEPT !.allocationHistory =
                    Append(st.allocationHistory, AllocationRecord(size, address))],
                size)
    IN IF Len(s1.allocationHistory) > HistoryCap
       THEN [s1 EXCEPT !.allocationHistory =
                SubSeq(s1.allocationHistory, 1, Len(s1.allocationHistory) - 1)]
       ELSE s1

\* MemoryProfiler::recordAllocation
recordAllocation(st, size, address) ==
    LET s1 == updateSizeFrequency(
                [st EXCEPT !.allocationHistory =
                    Append(st.allocationHistory, AllocationRecord(size, address))],
                size)
    IN IF Len(s1.allocationHistory) > HistoryCap
       THEN [s1 EXCEPT !.allocationHistory = Tail(s1.allocationHistory)]
       ELSE s1

\* MemoryProfiler::updateLifetimeStats (the durations themselves are the clock's)
updateLifetimeStats(st, record) ==
    [st EXCEPT !.lifetimeDistribution = MapInc(st.lifetimeDistribution, record.size)]

\* MemoryProfiler::recordDeallocation: the first record of the history with
\* this address that is active.
recordDeallocation(st, address) ==
    LET h == st.allocationHistory
        Match(i) == h[i].address = address /\ h[i].isActive
    IN IF \E i \in 1..Len(h) : Match(i)
       THEN LET i == CHOOSE i \in 1..Len(h) : Match(i) /\ \A j \in 1..(i - 1) : ~Match(j)
            IN updateLifetimeStats(
                 [st EXCEPT !.allocationHistory[i].isActive = FALSE,
                            !.allocationHistory[i].deallocated = TRUE],
                 h[i])
       ELSE st

\* MemoryProfiler::getTotalAllocations
getTotalAllocations(st) == Len(st.allocationHistory)

\* What the clock and the unspecified order of std::sort among equal
\* frequencies decide in one analysis:
\*   slow       the mean inter-arrival of the records exceeds 1000 us
\*   longLived  the mean recorded lifetime is at least 1000 ms
\*   top        commonSizes[0];  common  the set of commonSizes
ClockInputs(st) ==
    LET f == st.sizeFrequency
        n == Min(TopN, Cardinality(DOMAIN f))
        commons == {c \in SUBSET DOMAIN f :
                      /\ Cardinality(c) = n
                      /\ \A a \in c : \A b \in DOMAIN f \ c : f[a] >= f[b]}
    IN {[slow |-> sl, longLived |-> ll, top |-> t, common |-> c] :
          sl \in {x \in BOOLEAN : x => Len(st.allocationHistory) >= 2},
          ll \in {x \in BOOLEAN : x => DOMAIN st.lifetimeDistribution # {}},
          c \in commons,
          t \in DOMAIN f \cup {0}} \cap
       {k \in [slow : BOOLEAN, longLived : BOOLEAN,
               top : DOMAIN f \cup {0}, common : SUBSET DOMAIN f] :
          IF DOMAIN f = {} THEN k.top = 0
          ELSE k.top \in k.common /\ \A a \in DOMAIN f : f[k.top] >= f[a]}

\* MemoryProfiler::identifyHotSpots: the number of hot spots returned.
identifyHotSpots(st) ==
    LET regions == {st.allocationHistory[i].address \div REGION_SIZE :
                       i \in 1..Len(st.allocationHistory)}
    IN Min(MAX_HOTSPOTS, Cardinality(regions))

\* MemoryProfiler::analyzePatterns. sizeDistribution[size] is the fraction
\* sizeFrequency[size] / totalAllocations, kept as the pair of its terms.
analyzePatterns(st, clk) ==
    [commonSizes |-> clk.common,
     top |-> clk.top,
     longLived |-> clk.longLived,
     sizeFrequency |-> st.sizeFrequency,
     totalAllocations |-> SumMap(st.sizeFrequency, DOMAIN st.sizeFrequency),
     hotSpots |-> identifyHotSpots(st)]

\* MemoryProfiler::determineOptimalStrategy; the scores in tenths.
\* size - commonSizes[0] is unsigned: a size below commonSizes[0] wraps to a
\* huge difference, so the variance is then far above 1000.
determineOptimalStrategy(pattern) ==
    LET f == pattern.sizeFrequency
        wraps == \E sz \in DOMAIN f : sz < pattern.top
        sq == [sz \in DOMAIN f |-> (sz - pattern.top) * (sz - pattern.top) * f[sz]]
        lowVariance == ~wraps /\ SumMap(sq, DOMAIN f) < 1000 * pattern.totalAllocations
        varianceSmall == DOMAIN f = {} \/ lowVariance
        firstFitScore == (IF varianceSmall THEN 0 ELSE 3)
                         + (IF pattern.longLived THEN 0 ELSE 4)
        bestFitScore == (IF varianceSmall THEN 5 ELSE 0)
                        + (IF pattern.longLived THEN 3 ELSE 0)
        worstFitScore == IF pattern.hotSpots > 5 THEN 4 ELSE 0
    IN IF firstFitScore >= bestFitScore /\ firstFitScore >= worstFitScore
       THEN "FIRST_FIT"
       ELSE IF bestFitScore >= worstFitScore THEN "BEST_FIT" ELSE "WORST_FIT"

\* MemoryProfiler::calculatePatternConfidence, as the fraction num/den
\* (0.0 for no sizes).
calculatePatternConfidence(st, sizes) ==
    IF sizes = {} THEN [num |-> 0, den |-> 1]
    ELSE [num |-> SumMap(st.sizeFrequency, sizes),
          den |-> SumMap(st.sizeFrequency, DOMAIN st.sizeFrequency)]

\* MemoryProfiler::predictNextAllocation
predictNextAllocation(st, clk) ==
    LET pattern == analyzePatterns(st, clk) IN
    [recommendedStrategy |-> determineOptimalStrategy(pattern),
     confidence |-> calculatePatternConfidence(st, pattern.commonSizes),
     \* every size whose share exceeds 0.1, in the order of the map (ascending)
     recommendedPoolSizes |->
        {sz \in DOMAIN pattern.sizeFrequency :
            pattern.sizeFrequency[sz] * 10 > pattern.totalAllocations}]

\* MemoryProfiler::getPerformanceMetrics. hitRate = successful / size of the
\* history is kept as the pair; with an empty history it is 0/0, a NaN.
getPerformanceMetrics(st, clk) ==
    LET h == st.allocationHistory
        successful == Cardinality({i \in 1..Len(h) : h[i].isActive \/ h[i].deallocated})
    IN [fragmentationRatio |-> getFragmentationRatio(st),
        slow |-> clk.slow,
        successful |-> successful,
        attempts |-> Len(h),
        failedAllocations |-> Len(h) - successful]

\* MemoryProfiler::shouldCreatePoolForSize:
\* static_cast<size_t>(share * totalAllocations) >= threshold.
\* The double product (freq / total) * n is taken as the exact quotient
\* freq * n / total, truncated. The two agree whenever freq * n is no multiple
\* of total: the product is then at least 1/total away from an integer. Where
\* it is a multiple the double can fall just short of the integer and be
\* truncated to one less (1 of 49, 100 of 161, 3 of 10000); it does not for
\* 100 of any total below 134, nor for 1 or 2 of 9999 or 10000, the cases the
\* specifications of this module compare with a threshold they equal.
shouldCreatePoolForSize(st, size, threshold) ==
    LET total == SumMap(st.sizeFrequency, DOMAIN st.sizeFrequency) IN
    IF size \in DOMAIN st.sizeFrequency
    THEN (st.sizeFrequency[size] * getTotalAllocations(st)) \div total >= threshold
    ELSE FALSE

\* ---------------------------------------------- AdaptiveMemoryAllocator
\* pool.usedBlocks++ and pool.usedBlocks-- on a size_t
Increment(n) == IF n = SIZE_MAX THEN 0 ELSE n + 1
Decrement(n) == IF n = 0 THEN SIZE_MAX ELSE n - 1

MemoryPool(blockSize, freeBlocks, totalBlocks, usedBlocks) ==
    [blockSize |-> blockSize, freeBlocks |-> freeBlocks,
     totalBlocks |-> totalBlocks, usedBlocks |-> usedBlocks]

\* AdaptiveMemoryAllocator::AdaptiveMemoryAllocator(totalSize)
AdaptiveCtor(totalSize) ==
    [memoryBlocks |-> <<MemoryBlock(0, totalSize, TRUE)>>,
     addressMap |-> [a \in {0} |-> 0],
     totalMemorySize |-> totalSize,
     strategy |-> "FIRST_FIT",
     adaptiveMode |-> TRUE,
     memoryPools |-> <<>>,
     params |-> [fragmentationThreshold |-> [num |-> InitFragNum, den |-> InitFragDen],
                 poolCreationThreshold |-> InitPoolCreationThreshold,
                 adaptationInterval |-> InitAdaptationInterval,
                 operationsSinceLastAdaptation |-> 0],
     allocationHistory |-> <<>>,
     sizeFrequency |-> <<>>,
     lifetimeDistribution |-> <<>>,
     activeAllocations |-> <<>>,
     leakHistory |-> <<>>]

\* MemoryLeakDetector::recordAllocation (RECORD_ALLOCATION)
leakRecordAllocation(st, address, size) ==
    [st EXCEPT
       !.activeAllocations =
           [a \in DOMAIN st.activeAllocations \cup {address} |->
               IF a = address THEN size ELSE st.activeAllocations[a]],
       !.leakHistory = Append(st.leakHistory, <<address, size>>)]

\* MemoryLeakDetector::recordDeallocation (RECORD_DEALLOCATION)
leakRecordDeallocation(st, address) ==
    IF address \in DOMAIN st.activeAllocations
    THEN [st EXCEPT !.activeAllocations =
             [a \in DOMAIN st.activeAllocations \ {address} |-> st.activeAllocations[a]]]
    ELSE st

\* Mutant of allocateFromPool: the slot is taken from the front of freeBlocks.
allocateFromPool_Fifo(st, size) ==
    LET pools == st.memoryPools
        Suits(i) == pools[i].blockSize >= size /\ pools[i].freeBlocks # <<>>
    IN IF \E i \in 1..Len(pools) : Suits(i)
       THEN LET i == CHOOSE i \in 1..Len(pools) : Suits(i) /\ \A j \in 1..(i - 1) : ~Suits(j)
                fb == pools[i].freeBlocks
            IN [st |-> [st EXCEPT
                          !.memoryPools[i].freeBlocks = SubSeq(fb, 2, Len(fb)),
                          !.memoryPools[i].usedBlocks = Increment(pools[i].usedBlocks)],
                address |-> fb[1]]
       ELSE [st |-> st, address |-> 0]

\* Mutant of allocateFromPool: the last pool, in list order, that suits.
allocateFromPool_LastPool(st, size) ==
    LET pools == st.memoryPools
        Suits(i) == pools[i].blockSize >= size /\ pools[i].freeBlocks # <<>>
    IN IF \E i \in 1..Len(pools) : Suits(i)
       THEN LET i == CHOOSE i \in 1..Len(pools) :
                        Suits(i) /\ \A j \in (i + 1)..Len(pools) : ~Suits(j)
                fb == pools[i].freeBlocks
            IN [st |-> [st EXCEPT
                          !.memoryPools[i].freeBlocks = SubSeq(fb, 1, Len(fb) - 1),
                          !.memoryPools[i].usedBlocks = Increment(pools[i].usedBlocks)],
                address |-> fb[Len(fb)]]
       ELSE [st |-> st, address |-> 0]

\* AdaptiveMemoryAllocator::allocateFromPool: the first pool, in list
\* order, with blockSize >= size and a free slot; address 0 for none.
allocateFromPool(st, size) ==
    LET pools == st.memoryPools
        Suits(i) == pools[i].blockSize >= size /\ pools[i].freeBlocks # <<>>
    IN IF \E i \in 1..Len(pools) : Suits(i)
       THEN LET i == CHOOSE i \in 1..Len(pools) : Suits(i) /\ \A j \in 1..(i - 1) : ~Suits(j)
                fb == pools[i].freeBlocks
            IN [st |-> [st EXCEPT
                          !.memoryPools[i].freeBlocks = SubSeq(fb, 1, Len(fb) - 1),
                          !.memoryPools[i].usedBlocks = Increment(pools[i].usedBlocks)],
                address |-> fb[Len(fb)]]
       ELSE [st |-> st, address |-> 0]

\* AdaptiveMemoryAllocator::shouldCreatePool
shouldCreatePool(st, size) ==
    shouldCreatePoolForSize(st, size, st.params.poolCreationThreshold)

\* AdaptiveMemoryAllocator::createMemoryPool once MemoryAllocator::allocate
\* has answered with r. A throw of it leaves the method; base address 0 is
\* taken for a failure and the allocated arena block is then left without a
\* pool.
poolFromBlock(r, blockSize, blockCount) ==
    IF r.err # "none" THEN [st |-> r.st, err |-> r.err]
    ELSE IF r.address = 0 THEN [st |-> r.st, err |-> "none"]
    ELSE [st |-> [r.st EXCEPT !.memoryPools =
                     Append(r.st.memoryPools,
                            MemoryPool(blockSize,
                                       [i \in 1..blockCount |->
                                           r.address + (i - 1) * blockSize],
                                       blockCount, 0))],
          err |-> "none"]

\* AdaptiveMemoryAllocator::createMemoryPool
createMemoryPool(st, blockSize, blockCount) ==
    poolFromBlock(ArenaAllocate(st, blockSize * blockCount), blockSize, blockCount)

\* Mutant of KeepUsed: a pool is dropped when its utilisation
\* usedBlocks / totalBlocks is below 0.2 at the time of the call.
RECURSIVE KeepUsed_ByUtilisation(_)
KeepUsed_ByUtilisation(pools) ==
    IF pools = <<>> THEN <<>>
    ELSE IF Head(pools).usedBlocks * 5 < Head(pools).totalBlocks
         THEN KeepUsed_ByUtilisation(Tail(pools))
         ELSE <<Head(pools)>> \o KeepUsed_ByUtilisation(Tail(pools))

\* AdaptiveMemoryAllocator::cleanupUnusedPools: std::remove_if keeps the
\* order of the pools that stay.
RECURSIVE KeepUsed(_)
KeepUsed(pools) ==
    IF pools = <<>> THEN <<>>
    ELSE IF Head(pools).totalBlocks = 0 THEN KeepUsed(Tail(pools))
         ELSE <<Head(pools)>> \o KeepUsed(Tail(pools))

cleanupUnusedPools(st) == [st EXCEPT !.memoryPools = KeepUsed(st.memoryPools)]

\* static_cast<double>(usedBlocks) / totalBlocks < 0.2; a division by
\* totalBlocks = 0 gives an infinity or a NaN, and neither is below 0.2.
Underutilized(pool) ==
    /\ pool.totalBlocks > 0
    /\ pool.usedBlocks < pool.totalBlocks
    /\ pool.usedBlocks * 5 < pool.totalBlocks

\* AdaptiveMemoryAllocator::updatePoolUtilization
updatePoolUtilization(st) ==
    [st EXCEPT !.memoryPools =
        [i \in 1..Len(st.memoryPools) |->
            IF Underutilized(st.memoryPools[i])
            THEN [st.memoryPools[i] EXCEPT !.totalBlocks = 0]
            ELSE st.memoryPools[i]]]

\* The least size of a non-empty set: std::map iterates in ascending order.
Lowest(sizes) == CHOOSE x \in sizes : \A y \in sizes : x <= y

\* The loop of optimizePools over prediction.recommendedPoolSizes, which
\* std::map orders by size; a throw of createMemoryPool ends it. r is the
\* outcome of the iterations made so far.
RECURSIVE createPredictedPools(_, _, _)
createPredictedPools(r, sizes, count) ==
    IF r.err # "none" \/ sizes = {} THEN r
    ELSE IF \E i \in 1..Len(r.st.memoryPools) :
               r.st.memoryPools[i].blockSize = Lowest(sizes)
    THEN createPredictedPools(r, sizes \ {Lowest(sizes)}, count)
    ELSE createPredictedPools(createMemoryPool(r.st, Lowest(sizes), count),
                              sizes \ {Lowest(sizes)}, count)

\* The pools optimizePools asks for under a prediction.
poolsFor(st, prediction) ==
    createPredictedPools(
        [st |-> cleanupUnusedPools(st), err |-> "none"],
        prediction.recommendedPoolSizes,
        Max(MinPredictedPoolCount,
            (prediction.confidence.num * ConfidenceScale)
               \div prediction.confidence.den))

\* AdaptiveMemoryAllocator::optimizePools
optimizePools(st, clk) == poolsFor(st, predictNextAllocation(st, clk))

\* floor(x * num / 10): a size_t multiplied by 1.2, 0.8 or 0.9 and truncated.
Scaled(x, tenths) == (x * tenths) \div 10

\* AdaptiveMemoryAllocator::adjustParameters
adjustParameters(st, clk) ==
    LET metrics == getPerformanceMetrics(st, clk)
        p == st.params
        th == p.fragmentationThreshold
        hitBelow80 == metrics.attempts > 0
                      /\ metrics.successful * 10 < 8 * metrics.attempts
        hitAbove95 == metrics.attempts > 0
                      /\ metrics.successful * 100 > 95 * metrics.attempts
    IN [st EXCEPT !.params =
         [p EXCEPT
            !.fragmentationThreshold =
                IF hitBelow80 THEN [num |-> th.num * 11, den |-> th.den * 10]
                ELSE IF hitAbove95 THEN [num |-> th.num * 9, den |-> th.den * 10]
                ELSE th,
            !.poolCreationThreshold =
                IF metrics.failedAllocations > 100
                THEN Scaled(p.poolCreationThreshold, 9)
                ELSE p.poolCreationThreshold,
            !.adaptationInterval =
                IF metrics.slow THEN Scaled(p.adaptationInterval, 12)
                ELSE Scaled(p.adaptationInterval, 8)]]

\* metrics.fragmentationRatio > params.fragmentationThreshold on doubles.
\* The fractions decide it, except where they are equal: 1.0 - 0.7 is
\* 0.30000000000000004, above the double 0.3.
FragmentationAbove(ratio, th) ==
    \/ ratio.num * th.den > th.num * ratio.den
    \/ /\ ratio.num * th.den = th.num * ratio.den
       /\ th = [num |-> InitFragNum, den |-> InitFragDen]

\* updateStrategy with the test on the fragmentation left out.
updateStrategy_Always(st, clk) ==
    setAllocationStrategy(st, predictNextAllocation(st, clk).recommendedStrategy)

\* adaptStrategy: setAllocationStrategy(prediction.recommendedStrategy) if
\* the fragmentation is above the threshold.
updateStrategy(st, clk) ==
    IF FragmentationAbove(getPerformanceMetrics(st, clk).fragmentationRatio,
                          st.params.fragmentationThreshold)
    THEN setAllocationStrategy(st, predictNextAllocation(st, clk).recommendedStrategy)
    ELSE st

\* adaptStrategy once optimizePools has answered with r: a throw leaves the
\* method, otherwise adjustParameters runs and the counter is reset.
adaptAfterPools(r, clk) ==
    IF r.err # "none" THEN r
    ELSE [st |-> [adjustParameters(r.st, clk) EXCEPT
                     !.params.operationsSinceLastAdaptation = 0],
          err |-> "none"]

\* adaptStrategy without the test of the mode.
adaptStrategy_IgnoresMode(st, clk) ==
    adaptAfterPools(optimizePools(updateStrategy(st, clk), clk), clk)

\* AdaptiveMemoryAllocator::adaptStrategy
adaptStrategy(st, clk) ==
    IF ~st.adaptiveMode THEN [st |-> st, err |-> "none"]
    ELSE adaptAfterPools(optimizePools(updateStrategy(st, clk), clk), clk)

\* AdaptiveMemoryAllocator::enableAdaptiveMode
enableAdaptiveMode(st, enable, clk) ==
    IF enable
    THEN adaptStrategy([st EXCEPT !.adaptiveMode = TRUE,
                                  !.params.operationsSinceLastAdaptation = 0], clk)
    ELSE [st |-> [st EXCEPT !.adaptiveMode = FALSE], err |-> "none"]

\* What pool.freeBlocks.front() yields for each pool: the first free slot,
\* and for a pool with no free slot (front() of an empty vector is
\* undefined) any address.
FrontChoices(st) ==
    LET pools == st.memoryPools
        empty == {i \in 1..Len(pools) : pools[i].freeBlocks = <<>>}
    IN {[i \in 1..Len(pools) |->
            IF i \in empty THEN g[i] ELSE pools[i].freeBlocks[1]] :
          g \in [empty -> 0..st.totalMemorySize]}

\* allocate, the fall back to regular allocation once MemoryAllocator::allocate
\* has answered with a: the profiler record and the operation counter. due
\* tells whether the test that starts an Adapt step passes.
serveRecorded(a, size) ==
    IF a.err # "none"
    THEN [st |-> a.st, err |-> a.err, address |-> 0, served |-> "none", due |-> FALSE]
    ELSE [st |-> [recordAllocation(a.st, size, a.address) EXCEPT
                     !.params.operationsSinceLastAdaptation =
                         a.st.params.operationsSinceLastAdaptation + 1],
          err |-> "none", address |-> a.address, served |-> "arena",
          due |-> a.st.params.operationsSinceLastAdaptation + 1
                     >= a.st.params.adaptationInterval]

serveFromArena(st, size) == serveRecorded(ArenaAllocate(st, size), size)

\* allocate once allocateFromPool has answered with p on the pool just created.
serveRetried(p, size) ==
    IF p.address # 0
    THEN [st |-> recordAllocation(p.st, size, p.address), err |-> "none",
          address |-> p.address, served |-> "pool", due |-> FALSE]
    ELSE serveFromArena(p.st, size)

\* allocate once createMemoryPool(size, 10) has answered with c.
serveFromNewPool(c, size) ==
    IF c.err # "none"
    THEN [st |-> c.st, err |-> c.err, address |-> 0, served |-> "none", due |-> FALSE]
    ELSE serveRetried(allocateFromPool(c.st, size), size)

\* allocate in adaptive mode once allocateFromPool has answered with p.
serveFromPool(p, size) ==
    IF p.address # 0
    THEN [st |-> recordAllocation(p.st, size, p.address), err |-> "none",
          address |-> p.address, served |-> "pool", due |-> FALSE]
    ELSE IF shouldCreatePool(p.st, size)
    THEN serveFromNewPool(createMemoryPool(p.st, size, DefaultPoolBlockCount), size)
    ELSE serveFromArena(p.st, size)

\* AdaptiveMemoryAllocator::allocate up to the test that starts an Adapt
\* step: the pools, the arena, the profiler record and the operation counter.
allocateServe(st, size) ==
    IF st.adaptiveMode THEN serveFromPool(allocateFromPool(st, size), size)
    ELSE serveFromArena(st, size)

\* allocate once the Adapt step, if one was due, has answered with d: a throw
\* of it leaves the call before RECORD_ALLOCATION.
allocateAdapted(s, d, size) ==
    IF d.err # "none"
    THEN [st |-> d.st, err |-> d.err, address |-> 0,
          served |-> "arena", adapted |-> TRUE]
    ELSE [st |-> leakRecordAllocation(d.st, s.address, size), err |-> "none",
          address |-> s.address, served |-> "arena",
          adapted |-> s.due /\ s.st.adaptiveMode]

\* allocate from the test that starts an Adapt step on; s is what
\* allocateServe left.
allocateServed(s, size, clk) ==
    IF s.err # "none" \/ s.served = "pool"
    THEN [st |-> s.st, err |-> s.err, address |-> s.address,
          served |-> s.served, adapted |-> FALSE]
    ELSE IF s.due THEN allocateAdapted(s, adaptStrategy(s.st, clk), size)
    ELSE allocateAdapted(s, [st |-> s.st, err |-> "none"], size)

\* AdaptiveMemoryAllocator::allocate; clk is what the Adapt step, if one
\* runs, takes from the clock and the sort.
allocate(st, size, clk) == allocateServed(allocateServe(st, size), size, clk)

\* AdaptiveMemoryAllocator::deallocate; front[i] is what
\* memoryPools[i].freeBlocks.front() yields.
deallocate(st, address, front) ==
    LET s0 == leakRecordDeallocation(st, address)
        pools == s0.memoryPools
        InPool(i) == /\ address >= front[i]
                     /\ address < front[i] + pools[i].totalBlocks * pools[i].blockSize
    IN IF \E i \in 1..Len(pools) : InPool(i)
       THEN LET i == CHOOSE i \in 1..Len(pools) : InPool(i) /\ \A j \in 1..(i - 1) : ~InPool(j)
                s1 == [s0 EXCEPT
                         !.memoryPools[i].freeBlocks = Append(pools[i].freeBlocks, address),
                         !.memoryPools[i].usedBlocks = Decrement(pools[i].usedBlocks)]
            IN [st |-> recordDeallocation(s1, address), err |-> "none", served |-> "pool"]
       ELSE LET r == ArenaDeallocate(s0, address) IN
            IF r.err # "none"
            THEN [st |-> r.st, err |-> r.err, served |-> "none"]
            ELSE [st |-> updatePoolUtilization(recordDeallocation(r.st, address)),
                  err |-> "none", served |-> "arena"]

\* ------------------------------------------------------------- the client
HeldAddresses == {h[1] : h \in held}

\* The client has only deallocated addresses it held.
disciplined == strays = 0

Set(st) ==
    /\ memoryBlocks' = st.memoryBlocks
    /\ addressMap' = st.addressMap
    /\ totalMemorySize' = st.totalMemorySize
    /\ strategy' = st.strategy
    /\ adaptiveMode' = st.adaptiveMode
    /\ memoryPools' = st.memoryPools
    /\ params' = st.params
    /\ allocationHistory' = st.allocationHistory
    /\ sizeFrequency' = st.sizeFrequency
    /\ lifetimeDistribution' = st.lifetimeDistribution
    /\ activeAllocations' = st.activeAllocations
    /\ leakHistory' = st.leakHistory

Is(st) ==
    /\ memoryBlocks = st.memoryBlocks
    /\ addressMap = st.addressMap
    /\ totalMemorySize = st.totalMemorySize
    /\ strategy = st.strategy
    /\ adaptiveMode = st.adaptiveMode
    /\ memoryPools = st.memoryPools
    /\ params = st.params
    /\ allocationHistory = st.allocationHistory
    /\ sizeFrequency = st.sizeFrequency
    /\ lifetimeDistribution = st.lifetimeDistribution
    /\ activeAllocations = st.activeAllocations
    /\ leakHistory = st.leakHistory

NoCall == [op |-> "construct", arg |-> 0, err |-> "none", address |-> 0,
           served |-> "none", adapted |-> FALSE, wasHeld |-> FALSE]

\* The addresses the client passes to deallocate without holding them: the
\* base of every block, the slot each pool would hand out next, and the end
\* of the arena.
StrayAddresses(st) ==
    ({st.memoryBlocks[i].address : i \in 1..Len(st.memoryBlocks)}
     \cup {st.memoryPools[i].freeBlocks[Len(st.memoryPools[i].freeBlocks)] :
             i \in {j \in 1..Len(st.memoryPools) : st.memoryPools[j].freeBlocks # <<>>}}
     \cup {st.totalMemorySize})
    \ HeldAddresses

\* AdaptiveMemoryAllocator allocator(TotalSize);
Init ==
    /\ Is(AdaptiveCtor(TotalSize))
    /\ held = {}
    /\ strays = 0
    /\ ops = 0
    /\ adapts = 0
    /\ frees = 0
    /\ last = NoCall

\* An input of an analysis whose outcome no call reads.
OnlyClock(st) == CHOOSE clk \in ClockInputs(st) : TRUE

\* What allocate(size) takes from the clock and the sort: the Adapt step
\* analyses the profiler as it is once the call has been recorded (s is what
\* allocateServe left), and a call that runs no Adapt step takes nothing.
ClockInputsAfter(s) ==
    IF s.due /\ s.st.adaptiveMode THEN ClockInputs(s.st) ELSE {OnlyClock(s.st)}

AllocateClockInputs(st, size) == ClockInputsAfter(allocateServe(st, size))

\* allocator.allocate(size)
Allocate ==
    \E size \in 0..MaxSize : \E clk \in AllocateClockInputs(Cur, size) :
    \E r \in {allocate(Cur, size, clk)} :
        /\ ops < MaxOps
        /\ adapts' = IF r.adapted THEN adapts + 1 ELSE adapts
        /\ adapts' <= MaxAdapts
        /\ Set(r.st)
        /\ held' = IF r.err = "none" THEN held \cup {<<r.address, size, r.served>>} ELSE held
        /\ ops' = IF r.err = "none" THEN ops + 1 ELSE ops
        /\ UNCHANGED <<strays, frees>>
        /\ last' = [op |-> "allocate", arg |-> size, err |-> r.err,
                    address |-> r.address, served |-> r.served,
                    adapted |-> r.adapted,
                    wasHeld |-> r.err = "none" /\ r.address \in HeldAddresses]

\* The held addresses the client picks from when it deallocates: the
\* MaxChoices lowest ones.
FreeChoices ==
    {a \in HeldAddresses : Cardinality({b \in HeldAddresses : b < a}) < MaxChoices}

\* allocator.deallocate(address)
Deallocate ==
    \E address \in FreeChoices \cup StrayAddresses(Cur) :
    \E front \in FrontChoices(Cur) :
    \E r \in {deallocate(Cur, address, front)} :
        /\ strays' = IF address \in HeldAddresses THEN strays ELSE strays + 1
        /\ strays' <= MaxStrays
        /\ frees' = IF address \in HeldAddresses THEN frees + 1 ELSE frees
        /\ frees' <= MaxFrees
        /\ Set(r.st)
        /\ held' = IF r.err = "none" THEN {h \in held : h[1] # address} ELSE held
        /\ UNCHANGED <<ops, adapts>>
        /\ last' = [op |-> "deallocate", arg |-> address, err |-> r.err,
                    address |-> 0, served |-> r.served, adapted |-> FALSE,
                    wasHeld |-> address \in HeldAddresses]

\* allocator.enableAdaptiveMode(enable)
EnableAdaptiveMode ==
    \E enable \in BOOLEAN :
    \E clk \in IF enable THEN ClockInputs(Cur) ELSE {OnlyClock(Cur)} :
    \E r \in {enableAdaptiveMode(Cur, enable, clk)} :
        /\ adapts' = IF enable THEN adapts + 1 ELSE adapts
        /\ adapts' <= MaxAdapts
        /\ Set(r.st)
        /\ UNCHANGED <<held, strays, ops, frees>>
        /\ last' = [op |-> "enableAdaptiveMode", arg |-> IF enable THEN 1 ELSE 0,
                    err |-> r.err, address |-> 0, served |-> "none",
                    adapted |-> enable, wasHeld |-> FALSE]

Next == Allocate \/ Deallocate \/ EnableAdaptiveMode

Spec == Init /\ [][Next]_vars

\* --------------------------------------------- allocators with a past
\* The allocator st after k more calls of enableAdaptiveMode(true). The
\* interval is never negative: the test makes each call's outcome known
\* before the next call is made.
RECURSIVE Tuned(_, _)
Tuned(st, k) ==
    IF k = 0 \/ st.params.adaptationInterval < 0 THEN st
    ELSE Tuned(enableAdaptiveMode(st, TRUE, OnlyClock(st)).st, k - 1)

\* AdaptiveMemoryAllocator allocator(TotalSize);
\* TuneCalls times: allocator.enableAdaptiveMode(true);
InitTuned ==
    /\ Is(Tuned(AdaptiveCtor(TotalSize), TuneCalls))
    /\ held = {}
    /\ strays = 0
    /\ ops = 0
    /\ adapts = 0
    /\ frees = 0
    /\ last = NoCall

SpecTuned == InitTuned /\ [][Next]_vars

\* AdaptiveMemoryAllocator allocator(TotalSize);
\* TuneCalls + WornCalls times: allocator.enableAdaptiveMode(true);
InitWorn ==
    /\ Is(Tuned(AdaptiveCtor(TotalSize), TuneCalls + WornCalls))
    /\ held = {}
    /\ strays = 0
    /\ ops = 0
    /\ adapts = 0
    /\ frees = 0
    /\ last = NoCall

SpecWorn == InitWorn /\ [][Next]_vars

\* The client's state once allocate(size) has answered with r.
Holding(c, r, size) ==
    [st |-> r.st, held |-> c.held \cup {<<r.address, size, r.served>>}]

\* The client keeps calling allocate(1) while some pool has a free slot.
RECURSIVE Drained(_)
Drained(c) ==
    IF \E i \in 1..Len(c.st.memoryPools) : c.st.memoryPools[i].freeBlocks # <<>>
    THEN Drained(Holding(c, allocate(c.st, 1, OnlyClock(c.st)), 1))
    ELSE c

\* The client's state once enableAdaptiveMode(true) has returned.
Enabled(c) ==
    [st |-> enableAdaptiveMode(c.st, TRUE, OnlyClock(c.st)).st, held |-> c.held]

\* AdaptiveMemoryAllocator allocator(TotalSize);
\* allocator.allocate(1); allocator.enableAdaptiveMode(true);
\* and allocator.allocate(1) until the pool the Adapt step created is used up.
Exhausted ==
    Drained(Enabled(Holding([held |-> {}],
                            allocate(AdaptiveCtor(TotalSize), 1,
                                     OnlyClock(AdaptiveCtor(TotalSize))),
                            1)))

InitExhausted ==
    /\ Is(Exhausted.st)
    /\ held = Exhausted.held
    /\ strays = 0
    /\ ops = MaxOps - ExhaustedOps
    /\ adapts = 0
    /\ frees = MaxFrees - ExhaustedFrees
    /\ last = NoCall

SpecExhausted == InitExhausted /\ [][Next]_vars

\* AdaptiveMemoryAllocator allocator(TotalSize);
\* allocator.allocate(1); allocator.enableAdaptiveMode(true);
\* the Adapt step has created a pool, and the client goes on from there.
PoolCreated ==
    Enabled(Holding([held |-> {}],
                    allocate(AdaptiveCtor(TotalSize), 1,
                             OnlyClock(AdaptiveCtor(TotalSize))),
                    1))

InitPoolCreated ==
    /\ Is(PoolCreated.st)
    /\ held = PoolCreated.held
    /\ strays = 0
    /\ ops = 1
    /\ adapts = 0
    /\ frees = 0
    /\ last = NoCall

SpecPoolCreated == InitPoolCreated /\ [][Next]_vars

\* The allocator st after k more rounds of a = allocate(1); deallocate(a).
\* No pool exists during the rounds, so front() is never read. The history
\* is never shorter than 0: the test makes each round's outcome known before
\* the next round is made.
RECURSIVE Frequent(_, _)
Frequent(st, k) ==
    IF k = 0 \/ Len(st.allocationHistory) < 0 THEN st
    ELSE Frequent(deallocate(allocate(st, 1, OnlyClock(st)).st,
                             allocate(st, 1, OnlyClock(st)).address,
                             <<>>).st,
                  k - 1)

\* AdaptiveMemoryAllocator allocator(TotalSize);
\* InitPoolCreationThreshold times: allocator.deallocate(allocator.allocate(1));
InitFrequent ==
    /\ Is(Frequent(AdaptiveCtor(TotalSize), InitPoolCreationThreshold))
    /\ held = {}
    /\ strays = 0
    /\ ops = MaxOps - FrequentOps
    /\ adapts = 0
    /\ frees = MaxFrees - FrequentFrees
    /\ last = NoCall

SpecFrequent == InitFrequent /\ [][Next]_vars

\* ------------------------------------------------ the bare MemoryAllocator
\* A MemoryAllocator object on its own: the adaptive layer's fields are empty.
Bare(arena) ==
    [memoryBlocks |-> arena.memoryBlocks,
     addressMap |-> arena.addressMap,
     totalMemorySize |-> arena.totalMemorySize,
     strategy |-> arena.strategy,
     adaptiveMode |-> FALSE,
     memoryPools |-> <<>>,
     params |-> [fragmentationThreshold |-> [num |-> 0, den |-> 1],
                 poolCreationThreshold |-> 0,
                 adaptationInterval |-> 0,
                 operationsSinceLastAdaptation |-> 0],
     allocationHistory |-> <<>>,
     sizeFrequency |-> <<>>,
     lifetimeDistribution |-> <<>>,
     activeAllocations |-> <<>>,
     leakHistory |-> <<>>]

\* MemoryAllocator arena(ArenaSize, s);
InitArena ==
    /\ \E s \in Strategies : Is(Bare(MemoryAllocatorCtor(ArenaSize, s)))
    /\ held = {}
    /\ strays = 0
    /\ ops = 0
    /\ adapts = 0
    /\ frees = 0
    /\ last = NoCall

\* arena.allocate(size)
ArenaAllocateCall ==
    \E size \in 0..(ArenaSize + 1) :
        LET r == ArenaAllocate(Cur, size) IN
        /\ Set(r.st)
        /\ held' = IF r.err = "none" THEN held \cup {<<r.address, size, "arena">>} ELSE held
        /\ UNCHANGED <<strays, ops, adapts, frees>>
        /\ last' = [op |-> "allocate", arg |-> size, err |-> r.err,
                    address |-> r.address,
                    served |-> IF r.err = "none" THEN "arena" ELSE "none",
                    adapted |-> FALSE,
                    wasHeld |-> r.err = "none" /\ r.address \in HeldAddresses]

\* arena.deallocate(address), of any address
ArenaDeallocateCall ==
    \E address \in 0..ArenaSize :
        LET r == ArenaDeallocate(Cur, address) IN
        /\ Set(r.st)
        /\ held' = IF r.err = "none" THEN {h \in held : h[1] # address} ELSE held
        /\ strays' = IF address \in HeldAddresses THEN strays ELSE 1
        /\ UNCHANGED <<ops, adapts, frees>>
        /\ last' = [op |-> "deallocate", arg |-> address, err |-> r.err,
                    address |-> 0,
                    served |-> IF r.err = "none" THEN "arena" ELSE "none",
                    adapted |-> FALSE,
                    wasHeld |-> address \in HeldAddresses]

\* arena.setAllocationStrategy(newStrategy)
SetAllocationStrategyCall ==
    \E newStrategy \in Strategies :
        /\ Set(setAllocationStrategy(Cur, newStrategy))
        /\ UNCHANGED <<held, strays, ops, adapts, frees>>
        /\ last' = [op |-> "setAllocationStrategy", arg |-> 0, err |-> "none",
                    address |-> 0, served |-> "none", adapted |-> FALSE,
                    wasHeld |-> FALSE]

NextArena == ArenaAllocateCall \/ ArenaDeallocateCall \/ SetAllocationStrategyCall

SpecArena == InitArena /\ [][NextArena]_vars

\* ------------------------------------------------- allocateFromPool alone
\* allocateFromPool applied to pool lists as createMemoryPool builds them:
\* allocate(1) takes address 0 of a fresh allocator, then two pools are
\* created, each of one of the block sizes and one of the slot counts.
Pooled(st, blockSize, blockCount) == createMemoryPool(st, blockSize, blockCount).st

PoolCounts == {MinPredictedPoolCount, DefaultPoolBlockCount}

Based == allocate(AdaptiveCtor(PoolArena), 1, OnlyClock(AdaptiveCtor(PoolArena)))

InitPools ==
    /\ \E b1 \in 1..MaxSize : \E b2 \in 1..MaxSize :
       \E c1 \in PoolCounts : \E c2 \in PoolCounts :
          Is(Pooled(Pooled(Based.st, b1, c1), b2, c2))
    /\ held = {<<0, 1, "arena">>}
    /\ strays = 0
    /\ ops = 0
    /\ adapts = 0
    /\ frees = 0
    /\ last = NoCall

\* allocateFromPool(size); the slots handed out are not added to held, no
\* call of this specification reads them.
AllocateFromPoolCall ==
    \E size \in 0..(MaxSize + 1) :
    \E r \in {allocateFromPool(Cur, size)} :
        /\ Set(r.st)
        /\ UNCHANGED <<held, strays, ops, adapts, frees>>
        /\ last' = [op |-> "allocateFromPool", arg |-> size, err |-> "none",
                    address |-> r.address,
                    served |-> IF r.address # 0 THEN "pool" ELSE "none",
                    adapted |-> FALSE, wasHeld |-> FALSE]

NextPools == AllocateFromPoolCall

SpecPools == InitPools /\ [][NextPools]_vars

\* --------------------------------------- adaptive mode switched off
\* AdaptiveMemoryAllocator allocator(TotalSize);
\* 0 or TuneCalls times: allocator.enableAdaptiveMode(true);
\* allocator.enableAdaptiveMode(false);
InitDisabled ==
    /\ \E k \in {0, TuneCalls} :
          Is(enableAdaptiveMode(Tuned(AdaptiveCtor(TotalSize), k), FALSE,
                                OnlyClock(AdaptiveCtor(TotalSize))).st)
    /\ held = {}
    /\ strays = 0
    /\ ops = 0
    /\ adapts = 0
    /\ frees = 0
    /\ last = NoCall

NextDisabled == Allocate \/ Deallocate

SpecDisabled == InitDisabled /\ [][NextDisabled]_vars

\* ------------------------------------------- clients that create pools
\* allocator.createMemoryPool(blockSize, blockCount); the call counts among
\* the client's MaxOps calls.
CreateMemoryPoolCall ==
    \E blockSize \in 1..MaxSize : \E blockCount \in PoolCounts :
    \E r \in {createMemoryPool(Cur, blockSize, blockCount)} :
        /\ ops < MaxOps
        /\ ops' = ops + 1
        /\ Set(r.st)
        /\ UNCHANGED <<held, strays, adapts, frees>>
        /\ last' = [op |-> "createMemoryPool", arg |-> blockSize, err |-> r.err,
                    address |-> 0, served |-> "none", adapted |-> FALSE,
                    wasHeld |-> FALSE]

NextCreatePool == CreateMemoryPoolCall \/ Allocate \/ Deallocate

SpecCreatePool == Init /\ [][NextCreatePool]_vars

\* ------------------------------------------------- the MemoryProfiler alone
\* The profiler of st after recordAllocation(1, from), ...,
\* recordAllocation(1, to), halving the run of calls. Neither the history nor
\* a frequency is ever negative: the test makes each half's outcome known
\* before the next half is made.
RECURSIVE Recorded(_, _, _)
Recorded(st, from, to) ==
    IF from > to \/ Len(st.allocationHistory) + MapGet(st.sizeFrequency, 1) < 0 THEN st
    ELSE IF from = to THEN recordAllocation(st, 1, from)
    ELSE Recorded(Recorded(st, from, (from + to) \div 2), (from + to) \div 2 + 1, to)

\* MemoryProfiler profiler(&allocator);
\* for (i = 1; i <= HistoryCap - HistoryRoom; ++i) profiler.recordAllocation(1, i);
InitProfiler ==
    /\ Is(Recorded(AdaptiveCtor(TotalSize), 1, HistoryCap - HistoryRoom))
    /\ held = {}
    /\ strays = 0
    /\ ops = 0
    /\ adapts = 0
    /\ frees = 0
    /\ last = NoCall

\* profiler.recordAllocation(size, address)
RecordAllocationCall ==
    \E size \in 1..MaxSize : \E address \in 0..1 :
    \E r \in {recordAllocation(Cur, size, address)} :
        /\ ops < RecordCalls
        /\ ops' = ops + 1
        /\ Set(r)
        /\ UNCHANGED <<held, strays, adapts, frees>>
        /\ last' = [op |-> "recordAllocation", arg |-> size, err |-> "none",
                    address |-> address, served |-> "none", adapted |-> FALSE,
                    wasHeld |-> FALSE]

\* profiler.recordDeallocation(address)
RecordDeallocationCall ==
    \E address \in 0..2 :
    \E r \in {recordDeallocation(Cur, address)} :
        /\ ops < RecordCalls
        /\ ops' = ops + 1
        /\ Set(r)
        /\ UNCHANGED <<held, strays, adapts, frees>>
        /\ last' = [op |-> "recordDeallocation", arg |-> address, err |-> "none",
                    address |-> 0, served |-> "none", adapted |-> FALSE,
                    wasHeld |-> FALSE]

NextProfiler == RecordAllocationCall \/ RecordDeallocationCall

SpecProfiler == InitProfiler /\ [][NextProfiler]_vars

\* ---------------------------------------------------------------- claims
\* The last call was op and it returned without an error.
Returned(op) == last.op = op /\ last.err = "none"

\* The free blocks of a block list that can hold size bytes.
Fits(blocks, size) == {i \in 1..Len(blocks) : blocks[i].isFree /\ blocks[i].size >= size}

RECURSIVE SumSizes(_)
SumSizes(blocks) ==
    IF blocks = <<>> THEN 0 ELSE Head(blocks).size + SumSizes(Tail(blocks))

\* C1: the block list tiles the arena: the first block starts at address 0,
\* every block has a positive size, every block starts where its predecessor
\* ends, and the sizes sum to the total size.
C1_BlocksTileArena ==
    /\ Len(memoryBlocks) >= 1
    /\ memoryBlocks[1].address = 0
    /\ \A i \in 1..Len(memoryBlocks) : memoryBlocks[i].size > 0
    /\ \A i \in 2..Len(memoryBlocks) :
          memoryBlocks[i].address = memoryBlocks[i - 1].address + memoryBlocks[i - 1].size
    /\ SumSizes(memoryBlocks) = totalMemorySize

\* A deallocate has returned and left a free block of two or more bytes
\* between two allocated blocks.
C1_Witness ==
    /\ Returned("deallocate")
    /\ Len(memoryBlocks) >= 3
    /\ \E i \in 2..(Len(memoryBlocks) - 1) :
          /\ memoryBlocks[i].isFree /\ memoryBlocks[i].size >= 2
          /\ ~memoryBlocks[i - 1].isFree /\ ~memoryBlocks[i + 1].isFree

\* C2: no two neighbouring blocks of the block list are both free.
C2_NoAdjacentFree ==
    \A i \in 1..(Len(memoryBlocks) - 1) :
        ~(memoryBlocks[i].isFree /\ memoryBlocks[i + 1].isFree)

\* A deallocate of a held address has returned and the freed address lies
\* strictly inside a free block: the freed block was merged into a free
\* predecessor.
C2_Witness ==
    /\ Returned("deallocate")
    /\ last.wasHeld
    /\ \E i \in 1..Len(memoryBlocks) :
          /\ memoryBlocks[i].isFree
          /\ memoryBlocks[i].address < last.arg
          /\ last.arg < memoryBlocks[i].address + memoryBlocks[i].size

\* C4: a successful arena allocate(size) returns the base address of a free
\* block that can hold size bytes; the call replaces that block by an
\* allocated block of exactly size bytes, followed, if the block was larger,
\* by a free block of the remaining bytes; every other block is unchanged.
C4_AllocateSplitsChosenBlock ==
    [][(last'.op = "allocate" /\ last'.err = "none") =>
         LET a == last'.address
             n == last'.arg
             i == NodeIndex(memoryBlocks, a)
         IN /\ i # 0
            /\ memoryBlocks[i].isFree
            /\ memoryBlocks[i].size >= n
            /\ memoryBlocks' =
                 SubSeq(memoryBlocks, 1, i - 1)
                 \o <<MemoryBlock(a, n, FALSE)>>
                 \o (IF memoryBlocks[i].size > n
                     THEN <<MemoryBlock(a + n, memoryBlocks[i].size - n, TRUE)>>
                     ELSE <<>>)
                 \o SubSeq(memoryBlocks, i + 1, Len(memoryBlocks))]_vars

\* An allocate has split a block that lay between two allocated blocks.
C4_Witness ==
    /\ Returned("allocate")
    /\ \E i \in 2..(Len(memoryBlocks) - 2) :
          /\ memoryBlocks[i].address = last.address
          /\ ~memoryBlocks[i].isFree /\ memoryBlocks[i].size = last.arg
          /\ memoryBlocks[i + 1].isFree
          /\ ~memoryBlocks[i - 1].isFree /\ ~memoryBlocks[i + 2].isFree

\* C5, as claimed: under every policy an arena allocate(size) with size > 0
\* fails with NoFit if and only if no free block has size >= size.
C5_NoFitIffNoFreeBlockFits ==
    [][(last'.op = "allocate" /\ last'.arg > 0) =>
         (last'.err = "NoFit" <=> Fits(memoryBlocks, last'.arg) = {})]_vars

\* On a 1024-byte FIRST_FIT arena allocate(100) = 0, allocate(200) = 100,
\* deallocate(0), allocate(50) = 0 leaves the free blocks [50..100) and
\* [300..1024).
C10_Example ==
    LET s0 == Bare(MemoryAllocatorCtor(1024, "FIRST_FIT"))
        r1 == ArenaAllocate(s0, 100)
        r2 == ArenaAllocate(r1.st, 200)
        r3 == ArenaDeallocate(r2.st, 0)
        r4 == ArenaAllocate(r3.st, 50)
        b == r4.st.memoryBlocks
    IN /\ r1.err = "none" /\ r1.address = 0
       /\ r2.err = "none" /\ r2.address = 100
       /\ r3.err = "none"
       /\ r4.err = "none" /\ r4.address = 0
       /\ {<<b[i].address, b[i].address + b[i].size>> : i \in {j \in 1..Len(b) : b[j].isFree}}
            = {<<50, 100>>, <<300, 1024>>}

\* C10: under FIRST_FIT an allocate(size) with size > 0 for which some free
\* block fits returns the address of the lowest-addressed free block with
\* size >= size, and the 1024-byte example of C10_Example comes out as stated.
C10_FirstFitLowestAddress ==
    [][/\ C10_Example
       /\ (strategy = "FIRST_FIT" /\ last'.op = "allocate" /\ last'.arg > 0
           /\ Fits(memoryBlocks, last'.arg) # {}) =>
            LET i == CHOOSE i \in Fits(memoryBlocks, last'.arg) :
                        \A j \in Fits(memoryBlocks, last'.arg) : i <= j
            IN last'.err = "none" /\ last'.address = memoryBlocks[i].address]_vars

\* A FIRST_FIT allocate has passed over a free block that was too small and
\* split a later one.
C10_Witness ==
    /\ Returned("allocate")
    /\ strategy = "FIRST_FIT"
    /\ \E i, j, k \in 1..Len(memoryBlocks) :
          /\ i < j /\ j < k
          /\ memoryBlocks[i].isFree /\ memoryBlocks[i].size < last.arg
          /\ memoryBlocks[j].address = last.address /\ ~memoryBlocks[j].isFree
          /\ memoryBlocks[k].isFree

\* The byte range [h[1], h[1] + h[2]) of an outstanding allocation h.
Range(h) == h[1]..(h[1] + h[2] - 1)

\* C3, as claimed: for a client that only deallocates addresses it holds, the
\* byte ranges of the outstanding allocations are pairwise disjoint and lie
\* inside [0, total size), and allocate never returns an address that is
\* still outstanding.
C3_OutstandingRangesDisjoint ==
    disciplined =>
        /\ \A h \in held : h[1] + h[2] <= totalMemorySize
        /\ \A h1, h2 \in held : h1 # h2 => Range(h1) \cap Range(h2) = {}
        /\ ~(Returned("allocate") /\ last.wasHeld)

\* C6, as claimed: allocate(0) on the adaptive allocator fails with ZeroSize.
C6_AllocateZeroFails ==
    (last.op = "allocate" /\ last.arg = 0) => last.err = "ZeroSize"

\* C7, as claimed: deallocate(address) fails with InvalidAddress whenever
\* address is neither the base of a currently-allocated arena block nor an
\* in-use pool slot.
C7_DeallocateRejectsDeadAddress ==
    [][(/\ last'.op = "deallocate"
        /\ ~\E i \in 1..Len(memoryBlocks) :
               memoryBlocks[i].address = last'.arg /\ ~memoryBlocks[i].isFree
        /\ ~\E h \in held : h[1] = last'.arg /\ h[3] = "pool")
       => last'.err = "InvalidAddress"]_vars

\* C8, as claimed: for a client that only deallocates addresses it holds,
\* deallocate of an outstanding address succeeds.
C8_LiveDeallocateSucceeds ==
    (disciplined /\ last.op = "deallocate" /\ last.wasHeld) => last.err = "none"

\* C9, as claimed: an allocate or deallocate of the adaptive allocator that
\* raises an error leaves the arena, the pools, the profiler, the leak
\* tracker and the adaptive parameters as they were before the call.
C9_ErrorLeavesStateUnchanged ==
    [][(last'.op \in {"allocate", "deallocate"} /\ last'.err # "none")
       => Cur' = Cur]_vars

\* The arena [0..100 free][100..300 allocated][300..350 free][350..1024
\* allocated], built by allocate(100), allocate(200), allocate(50),
\* allocate(674), deallocate(0), deallocate(300) under the given policy.
HandBuilt(policy) ==
    ArenaDeallocate(
      ArenaDeallocate(
        ArenaAllocate(
          ArenaAllocate(
            ArenaAllocate(
              ArenaAllocate(Bare(MemoryAllocatorCtor(1024, policy)), 100).st,
              200).st,
            50).st,
          674).st,
        0).st,
      300).st

\* On the hand-built arena the free blocks are [0..100) and [300..350), and
\* under BEST_FIT a request of 40 returns 300 and a request of 60 returns 0.
C11_Example ==
    /\ HandBuilt("BEST_FIT").memoryBlocks =
          <<MemoryBlock(0, 100, TRUE), MemoryBlock(100, 200, FALSE),
            MemoryBlock(300, 50, TRUE), MemoryBlock(350, 674, FALSE)>>
    /\ ArenaAllocate(HandBuilt("BEST_FIT"), 40).address = 300
    /\ ArenaAllocate(HandBuilt("BEST_FIT"), 40).err = "none"
    /\ ArenaAllocate(HandBuilt("BEST_FIT"), 60).address = 0
    /\ ArenaAllocate(HandBuilt("BEST_FIT"), 60).err = "none"

\* C11: under BEST_FIT an allocate(size) with size > 0 for which some free
\* block fits returns the address of the fitting block with the least
\* size - requested, and among equally good ones the lowest-addressed; the
\* hand-built example of C11_Example comes out as stated.
C11_BestFitSmallestRemainder ==
    [][/\ C11_Example
       /\ (strategy = "BEST_FIT" /\ last'.op = "allocate" /\ last'.arg > 0
           /\ Fits(memoryBlocks, last'.arg) # {}) =>
            LET i == CHOOSE i \in Fits(memoryBlocks, last'.arg) :
                        \A j \in Fits(memoryBlocks, last'.arg) :
                            \/ memoryBlocks[i].size < memoryBlocks[j].size
                            \/ memoryBlocks[i].size = memoryBlocks[j].size /\ i <= j
            IN last'.err = "none" /\ last'.address = memoryBlocks[i].address]_vars

\* A BEST_FIT allocate has passed over an earlier free block that could hold
\* the request and taken a later, tighter one.
C11_Witness ==
    /\ Returned("allocate")
    /\ strategy = "BEST_FIT"
    /\ \E i \in 1..Len(memoryBlocks) :
          /\ memoryBlocks[i].isFree
          /\ memoryBlocks[i].size >= last.arg
          /\ memoryBlocks[i].address < last.address

\* C12, as claimed: under WORST_FIT an allocate(size) with size > 0 for which
\* some free block fits, a block of exactly size bytes included, returns the
\* address of the fitting block with the greatest size - requested, and
\* among equally good ones the lowest-addressed.
C12_WorstFitLargestRemainder ==
    [][(strategy = "WORST_FIT" /\ last'.op = "allocate" /\ last'.arg > 0
        /\ Fits(memoryBlocks, last'.arg) # {}) =>
            LET i == CHOOSE i \in Fits(memoryBlocks, last'.arg) :
                        \A j \in Fits(memoryBlocks, last'.arg) :
                            \/ memoryBlocks[i].size > memoryBlocks[j].size
                            \/ memoryBlocks[i].size = memoryBlocks[j].size /\ i <= j
            IN last'.err = "none" /\ last'.address = memoryBlocks[i].address]_vars

\* The sum of the sizes of blocks[lo..hi].
RECURSIVE RunSize(_, _, _)
RunSize(blocks, lo, hi) ==
    IF lo > hi THEN 0 ELSE blocks[lo].size + RunSize(blocks, lo + 1, hi)

\* C13: a successful arena deallocate(a) of an allocated block replaces the
\* block and its free neighbours by one free block that starts where the
\* leftmost of them started and has the sum of their sizes; every other
\* block is unchanged, and the lookup loses exactly the entries of the
\* swallowed blocks.
C13_DeallocateCoalescesRun ==
    [][(/\ last'.op = "deallocate" /\ last'.err = "none"
        /\ NodeIndex(memoryBlocks, last'.arg) # 0
        /\ ~memoryBlocks[NodeIndex(memoryBlocks, last'.arg)].isFree) =>
         LET b == memoryBlocks
             i == NodeIndex(b, last'.arg)
             lo == IF i > 1 /\ b[i - 1].isFree THEN i - 1 ELSE i
             hi == IF i < Len(b) /\ b[i + 1].isFree THEN i + 1 ELSE i
         IN /\ memoryBlocks' =
                 SubSeq(b, 1, lo - 1)
                 \o <<MemoryBlock(b[lo].address, RunSize(b, lo, hi), TRUE)>>
                 \o SubSeq(b, hi + 1, Len(b))
            /\ DOMAIN addressMap' =
                 DOMAIN addressMap \ {b[k].address : k \in (lo + 1)..hi}
            /\ \A x \in DOMAIN addressMap' : addressMap'[x] = addressMap[x]]_vars

\* A deallocate of a held address has returned, the freed block was merged
\* into a free predecessor, and an allocated block follows the merged block.
C13_Witness ==
    /\ Returned("deallocate")
    /\ last.wasHeld
    /\ \E i \in 1..(Len(memoryBlocks) - 1) :
          /\ memoryBlocks[i].isFree
          /\ memoryBlocks[i].address < last.arg
          /\ last.arg < memoryBlocks[i].address + memoryBlocks[i].size
          /\ ~memoryBlocks[i + 1].isFree

\* deallocate(allocate(n)) on the arena of st under the given policy: the
\* result of the allocate, and the state after the deallocate of its address.
RoundTrip(st, policy, n) ==
    LET got == ArenaAllocate(setAllocationStrategy(st, policy), n)
    IN [err |-> got.err, address |-> got.address, mid |-> got.st,
        back |-> ArenaDeallocate(got.st, got.address)]

\* a/b <= c/d for fractions with positive denominators.
FractionLeq(x, y) == x.num * y.den <= y.num * x.den

\* C14: in every reachable arena state, for every policy and every n whose
\* allocate succeeds, deallocate(allocate(n)) succeeds and gives back the
\* block list and the lookup exactly as they were, hence the same total free
\* memory, a largest free block that is not smaller and a fragmentation
\* ratio that is not larger.
C14_RoundTripRestoresArena ==
    \A policy \in Strategies : \A n \in 0..(ArenaSize + 1) :
       LET rt == RoundTrip(Cur, policy, n) IN
       rt.err = "none" =>
          /\ rt.back.err = "none"
          /\ rt.back.st.memoryBlocks = memoryBlocks
          /\ rt.back.st.addressMap = addressMap
          /\ getTotalFreeMemory(rt.back.st) = getTotalFreeMemory(Cur)
          /\ getLargestFreeBlock(rt.back.st) >= getLargestFreeBlock(Cur)
          /\ FractionLeq(getFragmentationRatio(rt.back.st), getFragmentationRatio(Cur))

\* A fragmented arena (an allocated block between two free ones) in which an
\* allocate splits a free block, so that the round trip has to merge again.
C14_Witness ==
    /\ \E i \in 2..(Len(memoryBlocks) - 1) :
          /\ ~memoryBlocks[i].isFree
          /\ memoryBlocks[i - 1].isFree
          /\ memoryBlocks[i + 1].isFree
    /\ \E policy \in Strategies : \E n \in 1..ArenaSize :
          LET rt == RoundTrip(Cur, policy, n) IN
          /\ rt.err = "none"
          /\ Len(rt.mid.memoryBlocks) = Len(memoryBlocks) + 1
          /\ rt.address > 0
          /\ rt.back.st.memoryBlocks = memoryBlocks

\* C15: setAllocationStrategy(policy) leaves the block list (addresses,
\* sizes, free flags), the address lookup and the arena size exactly as they
\* were, in every state and for every policy; only the strategy may differ.
C15_SetStrategyKeepsLayout ==
    [][last'.op = "setAllocationStrategy" =>
         /\ memoryBlocks' = memoryBlocks
         /\ addressMap' = addressMap
         /\ totalMemorySize' = totalMemorySize
         /\ strategy' \in Strategies]_vars

\* setAllocationStrategy has returned on an arena that holds an allocated
\* block between two free blocks.
C15_Witness ==
    /\ last.op = "setAllocationStrategy"
    /\ \E i \in 2..(Len(memoryBlocks) - 1) :
          /\ ~memoryBlocks[i].isFree
          /\ memoryBlocks[i - 1].isFree
          /\ memoryBlocks[i + 1].isFree

\* The spec's sequence on a FIRST_FIT arena of 1024 bytes: allocate(100) = 0,
\* allocate(100) = 100, deallocate(0), deallocate(100) leave one free block.
C16_Example ==
    LET a0 == Bare(MemoryAllocatorCtor(1024, "FIRST_FIT"))
        a1 == ArenaAllocate(a0, 100)
        a2 == ArenaAllocate(a1.st, 100)
        a3 == ArenaDeallocate(a2.st, 0)
        a4 == ArenaDeallocate(a3.st, 100)
    IN /\ a1.err = "none" /\ a1.address = 0
       /\ a2.err = "none" /\ a2.address = 100
       /\ a3.err = "none" /\ a4.err = "none"
       /\ a4.st.memoryBlocks = <<MemoryBlock(0, 1024, TRUE)>>

\* C16: on the arena, under every placement policy, whenever every address
\* handed out by a successful allocate has been deallocated again (in any
\* order), the block list is one free block covering [0, totalMemorySize).
C16_AllFreedIsOneBlock ==
    /\ C16_Example
    /\ held = {} => memoryBlocks = <<MemoryBlock(0, totalMemorySize, TRUE)>>

\* The last outstanding address has just been deallocated, and it was not
\* the first block of the arena, so at least two blocks had been handed out.
C16_Witness ==
    /\ Returned("deallocate")
    /\ last.wasHeld
    /\ last.arg > 0
    /\ held = {}
    /\ strays = 0

\* The slot addresses of a pool of totalBlocks slots of blockSize bytes at base.
SlotAddresses(base, blockSize, totalBlocks) ==
    {base + k * blockSize : k \in 0..(totalBlocks - 1)}

\* C17, as claimed: for a client that only deallocates addresses it holds,
\* after every public operation every pool of the pool list has
\* usedBlocks + |freeBlocks| = totalBlocks, pairwise distinct free-slot
\* entries, and every free-slot entry of the form base + k * blockSize with
\* 0 <= k < totalBlocks.
C17_PoolIntegrity ==
    disciplined =>
      \A p \in 1..Len(memoryPools) :
         LET pool == memoryPools[p] IN
         /\ pool.usedBlocks + Len(pool.freeBlocks) = pool.totalBlocks
         /\ \A i, j \in 1..Len(pool.freeBlocks) :
               i # j => pool.freeBlocks[i] # pool.freeBlocks[j]
         /\ \E base \in 0..totalMemorySize :
               \A i \in 1..Len(pool.freeBlocks) :
                  pool.freeBlocks[i] \in
                     SlotAddresses(base, pool.blockSize, pool.totalBlocks)

\* The allocated arena blocks that contain address a.
AllocatedAround(a) ==
    {i \in 1..Len(memoryBlocks) :
        /\ ~memoryBlocks[i].isFree
        /\ memoryBlocks[i].address <= a
        /\ a < memoryBlocks[i].address + memoryBlocks[i].size}

\* C18, as claimed: in every reachable state, whatever deallocate calls were
\* made, every pool of the pool list still has its arena block marked
\* allocated (each slot the pool lists as free lies inside an allocated arena
\* block), and distinct pools lie in distinct arena blocks.
C18_PoolBlockStaysAllocated ==
    /\ \A p \in 1..Len(memoryPools) :
          \A i \in 1..Len(memoryPools[p].freeBlocks) :
             AllocatedAround(memoryPools[p].freeBlocks[i]) # {}
    /\ \A p, q \in 1..Len(memoryPools) :
          p # q =>
            \A i \in 1..Len(memoryPools[p].freeBlocks) :
               \A j \in 1..Len(memoryPools[q].freeBlocks) :
                  AllocatedAround(memoryPools[p].freeBlocks[i])
                     \cap AllocatedAround(memoryPools[q].freeBlocks[j]) = {}

\* C19, as claimed: createMemoryPool returns without raising an error when
\* the arena has no free block of blockSize * blockCount bytes, so a call of
\* enableAdaptiveMode, whose Adapt step can fail nowhere but in
\* createMemoryPool, returns without error whatever pools it tries to create.
C19_PoolCreationNeverRaises ==
    [][last'.op = "enableAdaptiveMode" => last'.err = "none"]_vars

\* The pools of a pool list that can serve size bytes: blockSize >= size and
\* at least one free slot.
Serving(pools, size) ==
    {i \in 1..Len(pools) : pools[i].blockSize >= size /\ Len(pools[i].freeBlocks) > 0}

\* The sequence s without its element at index k.
Without(s, k) == [i \in 1..(Len(s) - 1) |-> IF i < k THEN s[i] ELSE s[i + 1]]

\* C20: in every reachable state and for every size, allocateFromPool(size)
\* answers no address and changes nothing exactly when no pool has
\* blockSize >= size and a free slot; otherwise it answers an address
\* (not 0, the value that stands for none) that is a free slot of the first
\* such pool in list order, removes that one entry from the pool's free
\* slots, adds one to its usedBlocks (in size_t arithmetic) and changes
\* nothing else.
C20_TryAllocateFirstServingPool ==
    \A size \in 0..(MaxSize + 1) :
       LET r == allocateFromPool(Cur, size)
           S == Serving(memoryPools, size)
       IN IF S = {}
          THEN r.address = 0 /\ r.st = Cur
          ELSE LET i == CHOOSE i \in S : \A j \in S : i <= j
                   pool == memoryPools[i]
               IN /\ r.address # 0
                  /\ \E k \in 1..Len(pool.freeBlocks) :
                        /\ pool.freeBlocks[k] = r.address
                        /\ r.st = [Cur EXCEPT
                                     !.memoryPools[i].freeBlocks = Without(pool.freeBlocks, k),
                                     !.memoryPools[i].usedBlocks =
                                         IF pool.usedBlocks = SIZE_MAX THEN 0
                                         ELSE pool.usedBlocks + 1]

\* allocateFromPool has answered a slot of the second pool because the first
\* pool, which still has free slots, has blocks smaller than the request.
C20_Witness ==
    /\ last.op = "allocateFromPool"
    /\ last.address # 0
    /\ Len(memoryPools) = 2
    /\ memoryPools[1].blockSize < last.arg
    /\ memoryPools[1].freeBlocks # <<>>
    /\ memoryPools[2].usedBlocks > 0

\* The pools whose region [base, base + totalBlocks * blockSize) contains
\* address a; the region of a pool is the allocated arena block of
\* totalBlocks * blockSize bytes that createMemoryPool took for it.
PoolsAround(a) ==
    {p \in 1..Len(memoryPools) :
        \E i \in AllocatedAround(a) :
           /\ memoryPools[p].totalBlocks > 0
           /\ memoryBlocks[i].size = memoryPools[p].totalBlocks * memoryPools[p].blockSize
           /\ \A k \in 1..Len(memoryPools[p].freeBlocks) :
                 i \in AllocatedAround(memoryPools[p].freeBlocks[k])}

\* C21, as claimed: for a client that only deallocates addresses it holds,
\* deallocate(a) of an address inside the region of a pool (also a pool all
\* of whose slots are in use) returns without error, appends a to the free
\* slots of that pool and leaves the arena's block list and lookup as they
\* were; an address outside every pool's region is handled by the arena's
\* deallocate.
C21_PoolAddressHandledByPool ==
    [][(last'.op = "deallocate" /\ strays' = 0) =>
         IF PoolsAround(last'.arg) # {}
         THEN /\ last'.err = "none"
              /\ memoryBlocks' = memoryBlocks
              /\ addressMap' = addressMap
              /\ \E p \in PoolsAround(last'.arg) :
                    memoryPools'[p].freeBlocks =
                       Append(memoryPools[p].freeBlocks, last'.arg)
         ELSE /\ last'.err = ArenaDeallocate(Cur, last'.arg).err
              /\ memoryBlocks' = ArenaDeallocate(Cur, last'.arg).st.memoryBlocks
              /\ \A p \in 1..Len(memoryPools) :
                    memoryPools'[p].freeBlocks = memoryPools[p].freeBlocks]_vars

\* C22: pool slots are reused last in, first out. A deallocate served by a
\* pool appends the address to the end of that pool's free slots; an allocate
\* served by a pool hands out the last entry of that pool's free slots and
\* removes it; and no other call changes the free slots of a pool that stays
\* in the list (an Adapt step only drops pools and adds fresh ones). Hence the
\* next allocation served from a pool after a slot was returned to it, with no
\* other deallocate into it in between, returns that slot.
C22_PoolSlotsLifo ==
    [][IF last'.op = "deallocate" /\ last'.served = "pool"
       THEN /\ Len(memoryPools') = Len(memoryPools)
            /\ \E p \in 1..Len(memoryPools) :
                  /\ memoryPools'[p].freeBlocks =
                        Append(memoryPools[p].freeBlocks, last'.arg)
                  /\ \A q \in 1..Len(memoryPools) :
                        q # p => memoryPools'[q].freeBlocks = memoryPools[q].freeBlocks
       ELSE IF last'.op = "allocate" /\ last'.served = "pool"
       THEN /\ Len(memoryPools') = Len(memoryPools)
            /\ \E p \in 1..Len(memoryPools) :
                  LET fb == memoryPools[p].freeBlocks IN
                  /\ fb # <<>>
                  /\ last'.address = fb[Len(fb)]
                  /\ memoryPools'[p].freeBlocks = SubSeq(fb, 1, Len(fb) - 1)
                  /\ \A q \in 1..Len(memoryPools) :
                        q # p => memoryPools'[q].freeBlocks = memoryPools[q].freeBlocks
       ELSE \A q \in 1..Len(memoryPools') :
               \/ \E p \in 1..Len(memoryPools) :
                     /\ memoryPools'[q].blockSize = memoryPools[p].blockSize
                     /\ memoryPools'[q].freeBlocks = memoryPools[p].freeBlocks
               \/ /\ memoryPools'[q].usedBlocks = 0
                  /\ Len(memoryPools'[q].freeBlocks) = memoryPools'[q].totalBlocks]_vars

\* An allocate has been served by a pool with a slot that an earlier
\* allocation had held and given back.
C22_Witness ==
    /\ Returned("allocate")
    /\ last.served = "pool"
    /\ \E i \in 1..Len(allocationHistory) :
          /\ allocationHistory[i].address = last.address
          /\ allocationHistory[i].deallocated

\* The pool carries the mark of updatePoolUtilization.
Unmarked(pool) == pool.totalBlocks # 0

\* The pool's utilisation usedBlocks / totalBlocks is not below 0.2.
NotBelowFloor(pool) == ~(pool.usedBlocks * 5 < pool.totalBlocks)

\* The pool list after is the sequence kept, in order, followed by pools
\* that createMemoryPool has just built.
KeptThenFresh(kept, after) ==
    /\ Len(after) >= Len(kept)
    /\ SubSeq(after, 1, Len(kept)) = kept
    /\ \A q \in (Len(kept) + 1)..Len(after) :
          after[q].usedBlocks = 0 /\ Len(after[q].freeBlocks) = after[q].totalBlocks

\* Every allocated block of the block list before is an allocated block of
\* the block list after.
AllocatedBlocksStay(before, after) ==
    \A i \in 1..Len(before) :
       ~before[i].isFree => \E j \in 1..Len(after) : after[j] = before[i]

\* C23, as claimed: the prune of an Adapt step removes exactly the pools whose
\* utilisation usedBlocks / totalBlocks is below 0.2 when the prune runs and
\* keeps every other pool, and leaves the allocated arena blocks allocated.
C23_PruneByUtilisation ==
    [][(last'.op \in {"allocate", "enableAdaptiveMode"} /\ last'.adapted) =>
         /\ KeptThenFresh(SelectSeq(memoryPools, NotBelowFloor), memoryPools')
         /\ AllocatedBlocksStay(memoryBlocks, memoryBlocks')]_vars

\* C23, amended: the prune of an Adapt step removes exactly the pools that
\* carry the mark totalBlocks = 0, which updatePoolUtilization sets after an
\* arena-path deallocate on pools whose utilisation is then below 0.2, and
\* keeps every other pool in order, whatever its utilisation when the prune
\* runs; the allocated arena blocks, that of a pruned pool included, stay
\* allocated.
C23_PruneMarkedPools ==
    [][(last'.op \in {"allocate", "enableAdaptiveMode"} /\ last'.adapted) =>
         /\ KeptThenFresh(SelectSeq(memoryPools, Unmarked), memoryPools')
         /\ AllocatedBlocksStay(memoryBlocks, memoryBlocks')]_vars

\* An Adapt step has pruned the only pool: the pool list is empty and the
\* 20-byte arena block of the pool is still allocated.
C23_Witness ==
    /\ last.op = "enableAdaptiveMode"
    /\ last.adapted
    /\ memoryPools = <<>>
    /\ \E i \in 1..Len(memoryBlocks) :
          ~memoryBlocks[i].isFree /\ memoryBlocks[i].size = ConfidenceScale

\* MemoryLeakDetector::hasLeaks
hasLeaks == DOMAIN activeAllocations # {}

\* MemoryLeakDetector::getCurrentlyAllocated: the sum of the sizes of the
\* active entries at the addresses of the set.
RECURSIVE ActiveTotal(_)
ActiveTotal(addresses) ==
    IF addresses = {} THEN 0
    ELSE LET a == CHOOSE a \in addresses : TRUE
         IN activeAllocations[a] + ActiveTotal(addresses \ {a})

\* The sum of the requested sizes of a set of outstanding allocations.
RECURSIVE HeldTotal(_)
HeldTotal(hs) ==
    IF hs = {} THEN 0
    ELSE LET h == CHOOSE h \in hs : TRUE IN h[2] + HeldTotal(hs \ {h})

\* C24, as claimed: for a client that only deallocates addresses it holds,
\* after every call the leak tracker's active set is exactly the set of
\* addresses returned by allocate and not yet deallocated, arena-served and
\* pool-served alike, each with its requested size; hasLeaks() is true iff
\* that set is not empty, and the currently-allocated total is the sum of
\* those sizes.
C24_LeakTrackerMatchesOutstanding ==
    disciplined =>
       /\ DOMAIN activeAllocations = HeldAddresses
       /\ \A h \in held : activeAllocations[h[1]] = h[2]
       /\ hasLeaks <=> held # {}
       /\ ActiveTotal(DOMAIN activeAllocations) = HeldTotal(held)

\* Address a lies in the allocated arena block of a pool of st with slots of
\* blockSize bytes.
InPoolOfSize(st, a, blockSize) ==
    \E p \in 1..Len(st.memoryPools) : \E i \in 1..Len(st.memoryBlocks) :
       /\ st.memoryPools[p].blockSize = blockSize
       /\ ~st.memoryBlocks[i].isFree
       /\ st.memoryBlocks[i].address <= a
       /\ a < st.memoryBlocks[i].address + st.memoryBlocks[i].size
       /\ \A k \in 1..Len(st.memoryPools[p].freeBlocks) :
             /\ st.memoryBlocks[i].address <= st.memoryPools[p].freeBlocks[k]
             /\ st.memoryPools[p].freeBlocks[k]
                   < st.memoryBlocks[i].address + st.memoryBlocks[i].size

\* C25, as claimed: with adaptive mode on, an allocate(s) that is made when
\* the count of recorded allocations of size s has reached
\* poolCreationThreshold and the arena has a free block of s * 10 bytes
\* returns without error, leaves a pool with slots of s bytes in the pool
\* list, and returns an address inside the arena block of such a pool.
C25_FrequentSizeGetsPool ==
    [][(/\ adaptiveMode
        /\ last'.op = "allocate"
        /\ last'.arg > 0
        /\ MapGet(sizeFrequency, last'.arg) >= params.poolCreationThreshold
        /\ Fits(memoryBlocks, last'.arg * DefaultPoolBlockCount) # {})
       => /\ last'.err = "none"
          /\ InPoolOfSize(Cur', last'.address, last'.arg)]_vars

\* C26, as claimed: with adaptive mode on, after every allocate call that
\* returns, operationsSinceLastAdaptation is strictly less than
\* adaptationInterval: the call that brings the counter up to the interval
\* runs the Adapt step, which resets the counter before the call returns.
C26_CounterBelowInterval ==
    (adaptiveMode /\ Returned("allocate")) =>
        params.operationsSinceLastAdaptation < params.adaptationInterval

\* The interval at which Adapt would run on every arena-path allocate.
IntervalWornOut == params.adaptationInterval = 0

\* C27, as claimed: after any number of Adapt steps adaptationInterval is at
\* least 10; in particular it is never 0.
C27_IntervalFloor == params.adaptationInterval >= 10 /\ ~IntervalWornOut

\* The adaptive configuration of the allocator st.
Configuration(st) ==
    <<st.strategy, st.params.fragmentationThreshold,
      st.params.poolCreationThreshold, st.params.adaptationInterval>>

\* The allocator as the Adapt step of the last call found it: after the
\* arena allocation and its profiler record for allocate, with the mode on
\* and the counter reset for enableAdaptiveMode(true).
BeforeAdapt(before, call) ==
    IF call.op = "allocate" THEN allocateServe(before, call.arg).st
    ELSE [before EXCEPT !.adaptiveMode = TRUE,
                        !.params.operationsSinceLastAdaptation = 0]

\* The fragmentation the Adapt step measures on st is above its threshold.
Fragmented(st) ==
    FragmentationAbove(getFragmentationRatio(st), st.params.fragmentationThreshold)

\* The strategies the profiler can recommend on st.
Recommended(st) ==
    {predictNextAllocation(st, clk).recommendedStrategy : clk \in ClockInputs(st)}

\* C28: an allocate or deallocate call that runs no Adapt step leaves the
\* arena strategy, the fragmentation threshold, the pool creation threshold
\* and the adaptation interval unchanged; an Adapt step changes the arena
\* strategy only when the fragmentation ratio it measures is above the
\* fragmentation threshold, and then to the strategy the profiler recommends.
C28_ConfigurationChangesOnlyInAdapt ==
    [][IF last'.adapted
       THEN strategy' # strategy =>
                /\ Fragmented(BeforeAdapt(Cur, last'))
                /\ strategy' \in Recommended(BeforeAdapt(Cur, last'))
       ELSE last'.op \in {"allocate", "deallocate"} =>
                Configuration([strategy |-> strategy', params |-> params'])
                    = Configuration(Cur)]_vars

\* An Adapt step has switched the arena to BEST_FIT,
\* and the call after it ran no Adapt step.
C28_Witness ==
    /\ strategy = "BEST_FIT"
    /\ last.op \in {"allocate", "deallocate"}
    /\ ~last.adapted
    /\ adapts > 0

\* The size variance of a pattern, sum of (size - commonSizes[0])^2 * share,
\* is below 1000 (no size recorded: the variance is 0).
SizeVarianceBelow1000(pattern) ==
    LET f == pattern.sizeFrequency
        sq == [sz \in DOMAIN f |-> (sz - pattern.top) * (sz - pattern.top) * f[sz]]
    IN DOMAIN f = {} \/ SumMap(sq, DOMAIN f) < 1000 * pattern.totalAllocations

\* The scores, in tenths, of the three strategies for the three conditions
\* of a pattern, in the order first, best, worst.
Scores(varianceBelow, manyHotSpots, shortLived) ==
    <<(IF varianceBelow THEN 0 ELSE 3) + (IF shortLived THEN 4 ELSE 0),
      (IF varianceBelow THEN 5 ELSE 0) + (IF shortLived THEN 0 ELSE 3),
      IF manyHotSpots THEN 4 ELSE 0>>

\* The strategy with the maximum score, ties in the order first, best, worst.
MaxScore(scores) ==
    LET order == <<"FIRST_FIT", "BEST_FIT", "WORST_FIT">>
        best == CHOOSE i \in 1..3 :
                  /\ \A j \in 1..3 : scores[i] >= scores[j]
                  /\ \A j \in 1..(i - 1) : scores[j] < scores[i]
    IN order[best]

\* C29, as claimed: whatever the profiler has recorded, the recommended
\* strategy is the one with the maximum score for the three conditions of the
\* pattern (size variance below 1000, more than 5 hot spots, average lifetime
\* below 1000 ms), ties resolved in the order first, best, worst.
C29_RecommendedIsMaxScore ==
    \A clk \in ClockInputs(Cur) :
        determineOptimalStrategy(analyzePatterns(Cur, clk))
            = MaxScore(Scores(SizeVarianceBelow1000(analyzePatterns(Cur, clk)),
                              identifyHotSpots(Cur) > 5,
                              ~clk.longLived))

\* C30: after every arena operation, every base address of an allocated
\* block is a key of the lookup and maps to the node of the list that holds
\* the block with that address, which is not free; and every entry of the
\* lookup names a node that is still in the list (none refers to a block that
\* coalescing removed).
C30_LookupSound ==
    /\ \A i \in 1..Len(memoryBlocks) :
          ~memoryBlocks[i].isFree =>
              /\ memoryBlocks[i].address \in DOMAIN addressMap
              /\ NodeIndex(memoryBlocks, addressMap[memoryBlocks[i].address]) = i
    /\ \A a \in DOMAIN addressMap :
          /\ NodeIndex(memoryBlocks, addressMap[a]) # 0
          /\ memoryBlocks[NodeIndex(memoryBlocks, addressMap[a])].address = a

\* A deallocate of a held address has returned, coalescing has removed the
\* freed block and its lookup entry, and an allocated block split off a
\* remainder is still in the list.
C30_Witness ==
    /\ Returned("deallocate")
    /\ last.wasHeld
    /\ last.arg \notin DOMAIN addressMap
    /\ \E i \in 1..Len(memoryBlocks) :
          ~memoryBlocks[i].isFree /\ memoryBlocks[i].address > last.arg

\* C31, as claimed: shouldCreatePoolForSize(size, threshold) answers true
\* exactly when the number of recorded allocations of that size is at least
\* the threshold, also once the history has evicted records.
C31_PoolForSizeIffCount ==
    \A size \in 1..(MaxSize + 1) : \A threshold \in 1..MaxSize :
        shouldCreatePoolForSize(Cur, size, threshold)
            <=> MapGet(sizeFrequency, size) >= threshold

\* C32: after every recordAllocation the history holds at most HistoryCap
\* records; a record appended to a full history evicts exactly the oldest
\* record, and the records that remain keep their order, the new record last.
C32_HistoryCappedFifo ==
    [][last'.op = "recordAllocation" =>
          /\ Len(allocationHistory') <= HistoryCap
          /\ allocationHistory' =
                Append(IF Len(allocationHistory) = HistoryCap
                       THEN SubSeq(allocationHistory, 2, HistoryCap)
                       ELSE allocationHistory,
                       AllocationRecord(last'.arg, last'.address))]_vars

\* A recordAllocation on a full history has returned: the record of the first
\* call is gone, the record of the second call is now the oldest, and the new
\* record is the newest.
C32_Witness ==
    /\ last.op = "recordAllocation"
    /\ Len(allocationHistory) = HistoryCap
    /\ allocationHistory[1].address = 2
    /\ allocationHistory[HistoryCap].address = last.address
    /\ SumMap(sizeFrequency, DOMAIN sizeFrequency) > HistoryCap

\* The pool is one of blockCount free slots of blockSize bytes that partition
\* the block.
PoolOver(pool, block, blockSize) ==
    /\ pool.blockSize = blockSize
    /\ pool.usedBlocks = 0
    /\ pool.totalBlocks * blockSize = block.size
    /\ Len(pool.freeBlocks) = pool.totalBlocks
    /\ \A i \in 1..Len(pool.freeBlocks) :
          pool.freeBlocks[i] = block.address + (i - 1) * blockSize

\* C33, as claimed: after createMemoryPool returns, either a new pool whose
\* slots exactly partition the newly allocated arena block has been added to
\* the pool list, or the arena block list is unchanged.
C33_PoolBlockIsOwned ==
    [][(last'.op = "createMemoryPool" /\ last'.err = "none") =>
          \/ memoryBlocks' = memoryBlocks
          \/ /\ Len(memoryPools') = Len(memoryPools) + 1
             /\ SubSeq(memoryPools', 1, Len(memoryPools)) = memoryPools
             /\ \E i \in 1..Len(memoryBlocks') :
                   /\ ~memoryBlocks'[i].isFree
                   /\ \A j \in 1..Len(memoryBlocks) :
                         memoryBlocks[j].address = memoryBlocks'[i].address
                             => memoryBlocks[j].isFree
                   /\ PoolOver(memoryPools'[Len(memoryPools')],
                               memoryBlocks'[i], last'.arg)]_vars

\* C34: with adaptive mode switched off before any allocation, every
\* allocate and deallocate call returns the address or the error that
\* MemoryAllocator with the same block list, lookup and strategy returns, and
\* leaves the block list and the lookup that MemoryAllocator leaves; no pool
\* is created, and the strategy, the two thresholds and the adaptation
\* interval do not change.
C34_DisabledIsBareArena ==
    [][/\ last'.op = "allocate" =>
             \E b \in {ArenaAllocate(Bare(Cur), last'.arg)} :
                /\ last'.err = b.err
                /\ b.err = "none" => last'.address = b.address
                /\ memoryBlocks' = b.st.memoryBlocks
                /\ addressMap' = b.st.addressMap
       /\ last'.op = "deallocate" =>
             \E b \in {ArenaDeallocate(Bare(Cur), last'.arg)} :
                /\ last'.err = b.err
                /\ memoryBlocks' = b.st.memoryBlocks
                /\ addressMap' = b.st.addressMap
       /\ memoryPools' = <<>>
       /\ ~adaptiveMode'
       /\ Configuration([strategy |-> strategy', params |-> params'])
              = Configuration(Cur)]_vars

\* With the mode off, an allocate has returned an address with the operation
\* counter at or above the adaptation interval, after a deallocate has
\* coalesced blocks: the Adapt step was due and did not run.
C34_Witness ==
    /\ ~adaptiveMode
    /\ Returned("allocate")
    /\ last.address > 0
    /\ frees > 0
    /\ params.operationsSinceLastAdaptation >= params.adaptationInterval
    /\ memoryPools = <<>>

====
